---------------------------- MODULE Spec2Model ----------------------------
(***************************************************************************)
(* Finite-difference solvers of pdepy: Laplace, parabolic and wave         *)
(* equations on a rectangular grid (src/pde/*.py, src/pde/core.py) and the *)
(* method validator of src/pdepy/utils.py.                                 *)
(*                                                                         *)
(* Floating-point numbers are modelled by exact rationals <<num, den>>     *)
(* in lowest terms with den > 0.  <<0, 0>> is the content of a cell of an  *)
(* array returned by np.empty that has not been assigned yet.              *)
(***************************************************************************)
EXTENDS Integers, Sequences, FiniteSets, TLC

\* ------------------------------------------------------------------ bounds
\* Largest partition counts of the x and y axes.
MaxXn == 4
MaxYn == 4
\* Largest number of interior unknowns of a Laplace system with unit steps,
\* and with unequal steps (exact elimination stays within TLC's integers).
MaxUnknowns == 6
MaxSkewUnknowns == 4
\* Largest product of unknowns and passes of an implicit loop run on data
\* that is not an exact solution of the scheme.
MaxImplicitWork == 6
\* Largest number of calls of solve in one session, and of grid nodes of
\* the first call of a session of several calls.
MaxCalls == 3
MaxSessionNodes == 9

\* ------------------------------------------------------- float arithmetic
Abs(n) == IF n < 0 THEN -n ELSE n

RECURSIVE GCD(_, _)
GCD(a, b) == IF b = 0 THEN a ELSE GCD(b, a % b)

Unset == <<0, 0>>
IsSet(a) == a[2] # 0

Norm(n, d) ==
    IF d = 0 THEN Unset
    ELSE LET g == GCD(Abs(n), Abs(d))
             s == IF d < 0 THEN -1 ELSE 1
         IN  <<(s * n) \div g, (s * d) \div g>>

R(n) == <<n, 1>>
Zero == R(0)
One == R(1)

RNeg(a) == <<-a[1], a[2]>>

RAdd(a, b) ==
    IF a[2] = 0 \/ b[2] = 0 THEN Unset
    ELSE LET g == GCD(a[2], b[2])
         IN  Norm(a[1] * (b[2] \div g) + b[1] * (a[2] \div g), (a[2] \div g) * b[2])

RSub(a, b) == RAdd(a, RNeg(b))

RMul(a, b) ==
    IF a[2] = 0 \/ b[2] = 0 THEN Unset
    ELSE LET g1 == GCD(Abs(a[1]), b[2])
             g2 == GCD(Abs(b[1]), a[2])
         IN  Norm((a[1] \div g1) * (b[1] \div g2), (a[2] \div g2) * (b[2] \div g1))

RDiv(a, b) ==
    IF b[1] = 0 THEN Unset
    ELSE RMul(a, IF b[1] > 0 THEN <<b[2], b[1]>> ELSE <<-b[2], -b[1]>>)

RAbs(a) == <<Abs(a[1]), a[2]>>

RSq(a) == RMul(a, a)

\* ------------------------------------------------------------ linalg.solve
\* f itself.  TLC evaluates a function expression anew at every
\* application; the comparison makes it tabulate the function once.
Tabulated(f) == IF f = f THEN f ELSE f

\* Gaussian elimination on the augmented matrix A (n rows, n+1 columns),
\* column c onwards; <<>> when no pivot is left (a singular matrix).
RECURSIVE Eliminate(_, _, _)
Eliminate(A, n, c) ==
    IF c > n THEN A
    ELSE LET cand == {r \in c..n : A[r][c][1] # 0}
         IN  IF cand = {} THEN <<>>
             ELSE LET p    == CHOOSE r \in cand : \A q \in cand : r <= q
                      sw   == [r \in 1..n |-> IF r = c THEN A[p]
                                              ELSE IF r = p THEN A[c] ELSE A[r]]
                      rowc == [k \in 1..(n+1) |-> RDiv(sw[c][k], sw[c][c])]
                      A2   == [r \in 1..n |->
                                 IF r = c THEN rowc
                                 ELSE IF sw[r][c][1] = 0 THEN sw[r]
                                 ELSE [k \in 1..(n+1) |->
                                         IF rowc[k][1] = 0 THEN sw[r][k]
                                         ELSE RSub(sw[r][k], RMul(sw[r][c], rowc[k]))]]
                  IN  Eliminate(Tabulated(A2), n, c + 1)

\* scipy.linalg.solve(mat, vec): the solution of mat . x = vec, or <<>>
\* when mat is singular (LinAlgError).  An empty system has no solution
\* vector to return.
linalg_solve(mat, vec) ==
    LET n == Len(vec)
        A == [r \in 1..n |-> [k \in 1..(n+1) |-> IF k <= n THEN mat[r][k] ELSE vec[r]]]
        E == Eliminate(Tabulated(A), n, 1)
    IN  IF n = 0 \/ E = <<>> THEN <<>> ELSE [r \in 1..n |-> E[r][n+1]]

\* ------------------------------------------------------------ python values
\* A condition is a scalar or a 1-D array; a scalar holds its value in a[1].
Scalar(r) == [kind |-> "scalar", a |-> <<r>>]
Arr(s) == [kind |-> "array", a |-> s]

\* A parabolic coefficient is a scalar, a 2-D array or a function of (x, y).
PScalar(r) == [kind |-> "scalar", s |-> r, arr |-> <<>>, fn |-> ""]
PArray(m) == [kind |-> "array", s |-> Zero, arr |-> m, fn |-> ""]
PFunc(name) == [kind |-> "func", s |-> Zero, arr |-> <<>>, fn |-> name]

\* seq[::2]: the elements at the even python indices 0, 2, 4, ...
EvenSlice(seq) == [k \in 1..((Len(seq) + 1) \div 2) |-> seq[2 * k - 1]]

\* np.linspace(0, f, n+1): element i (1-based) is (i-1) * f / n; the one
\* sample of n = 0 is the start 0, and n = -1 gives the empty array.
linspace(f, n) ==
    [i \in 1..(n + 1) |-> IF n = 0 THEN Zero ELSE RMul(R(i - 1), RDiv(f, R(n)))]

\* np.linspace raises ValueError for a negative number of samples.
linspace_raises(n) == n + 1 < 0

\* base.set_axis / Base._set_axis
set_axis(xn, xf, yn, yf) == <<linspace(xf, xn), linspace(yf, yn)>>

\* ------------------------------------------------------- method validation
LAPLACE_METHODS == {"c"}
PARABOLIC_METHODS == {"ec", "eu", "ic", "iu"}
WAVE_METHODS == {"e", "i"}

METHODS(slv) ==
    CASE slv = "laplace" -> LAPLACE_METHODS
      [] slv = "parabolic" -> PARABOLIC_METHODS
      [] slv = "wave" -> WAVE_METHODS

\* check_method without the membership test.
check_method_accepting(method, methods) == TRUE

\* base.check_method: TRUE when the call returns, FALSE when it ends in
\* sys.exit.
check_method(method, methods) == method \in methods

\* ------------------------------------------------------ set_u (conditions)
\* u[rows, cols] = np.empty: every cell unassigned.
\* np.empty with the two dimensions exchanged.
np_empty_transposed(rows, cols) == [i \in 0..(cols - 1) |-> [j \in 0..(rows - 1) |-> <<0, 0>>]]

\* np.empty((rows, cols)): no cell holds a value yet.
np_empty(rows, cols) == [i \in 0..(rows - 1) |-> [j \in 0..(cols - 1) |-> Unset]]

\* What the caller sees in an array w that np.empty allocated in a block
\* of memory that held the array old before (<<>> for a block never used):
\* a cell that was never assigned still shows the old content.
Observed(w, old) ==
    [i \in DOMAIN w |-> [c \in DOMAIN w[i] |->
        IF ~IsSet(w[i][c]) /\ i \in DOMAIN old /\ c \in DOMAIN old[i]
        THEN old[i][c] ELSE w[i][c]]]

\* u.shape[0] and u.shape[1]
Rows(u) == Cardinality(DOMAIN u)
Cols(u) == Cardinality(DOMAIN u[0])

\* numpy accepts "target[...] = c" for a scalar, for an array of the
\* target's length and (broadcasting) for an array of length 1.
Broadcastable(c, n) == c.kind = "scalar" \/ Len(c.a) = n \/ Len(c.a) = 1

\* element i (0-based) of c broadcast to a longer target
At(c, i) == IF c.kind = "scalar" \/ Len(c.a) = 1 THEN c.a[1] ELSE c.a[i + 1]

\* u[:, col] = c
AssignCol(u, col, c) ==
    [i \in DOMAIN u |-> [j \in DOMAIN u[i] |-> IF j = col THEN At(c, i) ELSE u[i][j]]]

\* u[row, :] = c
AssignRow(u, row, c) ==
    [i \in DOMAIN u |-> [j \in DOMAIN u[i] |-> IF i = row THEN At(c, j) ELSE u[i][j]]]

\* time.set_u with the initial condition assigned last.
time_set_u_init_last(xn, yn, init, bound_x0, bound_xf) ==
    IF ~Broadcastable(init, xn + 1) \/ ~Broadcastable(bound_x0, yn + 1)
         \/ ~Broadcastable(bound_xf, yn + 1)
    THEN <<>>
    ELSE LET u0 == [i \in 0..xn |-> [j \in 0..yn |-> Unset]]
             u1 == [i \in 0..xn |-> [j \in 0..yn |->
                        IF i = 0 THEN bound_x0.a[IF Len(bound_x0.a) = 1 THEN 1 ELSE j + 1]
                        ELSE IF i = xn THEN bound_xf.a[IF Len(bound_xf.a) = 1 THEN 1 ELSE j + 1]
                        ELSE u0[i][j]]]
         IN  [i \in 0..xn |-> [j \in 0..yn |->
                 IF j = 0 THEN init.a[IF Len(init.a) = 1 THEN 1 ELSE i + 1] ELSE u1[i][j]]]

\* time.set_u / TimeDependent._set_u: <<>> when an assignment raises
\* ValueError (shapes cannot be broadcast).
time_set_u(xn, yn, init, bound_x0, bound_xf) ==
    IF ~Broadcastable(init, xn + 1) \/ ~Broadcastable(bound_x0, yn + 1)
         \/ ~Broadcastable(bound_xf, yn + 1)
    THEN <<>>
    ELSE LET u0 == np_empty(xn + 1, yn + 1)
             u1 == AssignCol(u0, 0, init)
             u2 == AssignRow(u1, 0, bound_x0)
         IN  AssignRow(u2, xn, bound_xf)

\* steady.set_u assigning the four edges without their end cells.
steady_set_u_open_edges(xn, yn, bound_x0, bound_xf, bound_y0, bound_yf) ==
    IF ~Broadcastable(bound_x0, yn + 1) \/ ~Broadcastable(bound_xf, yn + 1)
         \/ ~Broadcastable(bound_y0, xn + 1) \/ ~Broadcastable(bound_yf, xn + 1)
    THEN <<>>
    ELSE [i \in 0..xn |-> [c \in 0..yn |->
            IF i \in {0, xn} /\ c \in {0, yn} THEN Unset
            ELSE IF c = yn THEN At(bound_yf, i)
            ELSE IF c = 0 THEN At(bound_y0, i)
            ELSE IF i = xn THEN At(bound_xf, c)
            ELSE IF i = 0 THEN At(bound_x0, c)
            ELSE Unset]]

\* steady.set_u / SteadyState._set_u
steady_set_u(xn, yn, bound_x0, bound_xf, bound_y0, bound_yf) ==
    IF ~Broadcastable(bound_x0, yn + 1) \/ ~Broadcastable(bound_xf, yn + 1)
         \/ ~Broadcastable(bound_y0, xn + 1) \/ ~Broadcastable(bound_yf, xn + 1)
    THEN <<>>
    ELSE LET u0 == np_empty(xn + 1, yn + 1)
             u1 == AssignRow(u0, 0, bound_x0)
             u2 == AssignRow(u1, xn, bound_xf)
             u3 == AssignCol(u2, 0, bound_y0)
         IN  AssignCol(u3, yn, bound_yf)

\* pdepy.steady.set_u(x, y, ...): the array is sized by the two axes;
\* <<>> when an assignment raises ValueError.
pdepy_steady_set_u(x, y, bound_x0, bound_xf, bound_y0, bound_yf) ==
    IF ~Broadcastable(bound_x0, Len(y)) \/ ~Broadcastable(bound_xf, Len(y))
         \/ ~Broadcastable(bound_y0, Len(x)) \/ ~Broadcastable(bound_yf, Len(x))
    THEN <<>>
    ELSE LET u0 == np_empty(Len(x), Len(y))
             u1 == AssignRow(u0, 0, bound_x0)
             u2 == AssignRow(u1, Len(x) - 1, bound_xf)
             u3 == AssignCol(u2, 0, bound_y0)
         IN  AssignCol(u3, Len(y) - 1, bound_yf)

\* ----------------------------------------------------------------- laplace
\* laplace._cal_constants: (alpha, beta)
laplace_cal_constants(xn, xf, yn, yf) ==
    <<RSq(RDiv(xf, R(xn))), RSq(RDiv(yf, R(yn)))>>

\* sub1 of laplace._set_mat after "sub1[xn-2:-1:xn-1] = 0"; m is the
\* 0-based index into sub1, whose length is n-1.
laplace_sub1(be, xn, n, m) ==
    IF m >= xn - 2 /\ m < n - 2 /\ (m - (xn - 2)) % (xn - 1) = 0 THEN Zero ELSE be

\* laplace._set_mat: the sum of the five np.diag matrices.
laplace_set_mat(al, be, xn, yn) ==
    LET n == (xn - 1) * (yn - 1)
        main == RNeg(RMul(R(2), RAdd(al, be)))
        e(r, c) ==
            LET d  == c - r
                t0 == IF d = 0 THEN main ELSE Zero
                t1 == IF d = 1 THEN RAdd(t0, laplace_sub1(be, xn, n, r - 1)) ELSE t0
                t2 == IF d = -1 THEN RAdd(t1, laplace_sub1(be, xn, n, c - 1)) ELSE t1
                t3 == IF d = xn - 1 THEN RAdd(t2, al) ELSE t2
            IN  IF d = -(xn - 1) THEN RAdd(t3, al) ELSE t3
    IN  [r \in 1..n |-> [c \in 1..n |-> e(r, c)]]

\* laplace._set_vec: the interior block, then reshaped in Fortran order.
laplace_set_vec(al, be, u) ==
    LET xn == Rows(u) - 1
        yn == Cols(u) - 1
        v(i, j) ==
            LET v0 == Zero
                v1 == IF i = 1 THEN RSub(v0, RMul(be, u[0][j])) ELSE v0
                v2 == IF i = xn - 1 THEN RSub(v1, RMul(be, u[xn][j])) ELSE v1
                v3 == IF j = 1 THEN RSub(v2, RMul(al, u[i][0])) ELSE v2
            IN  IF j = yn - 1 THEN RSub(v3, RMul(al, u[i][yn])) ELSE v3
    IN  [m \in 1..((xn - 1) * (yn - 1)) |->
            v(((m - 1) % (xn - 1)) + 1, ((m - 1) \div (xn - 1)) + 1)]

\* laplace._implicit with the solution reshaped row-major (order 'C').
laplace_implicit_c_order(u, xn, yn, al, be) ==
    LET x == linalg_solve(laplace_set_mat(al, be, xn, yn), laplace_set_vec(al, be, u))
    IN  IF x = <<>> THEN <<>>
        ELSE [i \in DOMAIN u |-> [j \in DOMAIN u[i] |->
                IF i >= 1 /\ i <= xn - 1 /\ j >= 1 /\ j <= yn - 1
                THEN x[(i - 1) * (yn - 1) + (j - 1) + 1]
                ELSE u[i][j]]]

\* laplace._implicit: <<>> when linalg.solve raises.
laplace_implicit(u, xn, yn, al, be) ==
    LET mat == laplace_set_mat(al, be, xn, yn)
        vec == laplace_set_vec(al, be, u)
        x   == linalg_solve(mat, vec)
    IN  IF x = <<>> THEN <<>>
        ELSE [i \in DOMAIN u |-> [j \in DOMAIN u[i] |->
                IF i >= 1 /\ i <= xn - 1 /\ j >= 1 /\ j <= yn - 1
                THEN x[(i - 1) + (xn - 1) * (j - 1) + 1]
                ELSE u[i][j]]]

\* --------------------------------------------------------------- parabolic
\* parabolic._cal_constants: (alpha, beta, k)
parabolic_cal_constants(xn, xf, yn, yf) ==
    LET h == RDiv(xf, R(xn))
        k == RDiv(yf, R(yn))
    IN  <<RDiv(k, RSq(h)), RDiv(k, RMul(R(2), h)), k>>

\* parabolic._set_theta: method[1] == 'c' -> 0, 'u' -> 1
set_theta(method) == IF method \in {"ec", "ic"} THEN 0 ELSE 1

\* method[0] == 'e'
FirstCharIsE(method) == method \in {"e", "ec", "eu"}

\* The three stencil coefficients shared by the explicit formula, _set_mat
\* and _set_vec, for one node with coefficients p, q (r for the centre).
coef_lower(th, al, be, p, q) ==
    RAdd(RMul(al, p), RMul(be, RSub(RMul(R(th), RAbs(q)), q)))
coef_upper(th, al, be, p, q) ==
    RAdd(RMul(al, p), RMul(be, RAdd(RMul(R(th), RAbs(q)), q)))
\* The centre term without the upwind part 2*theta*beta*|q|.
coef_centre_central(th, al, be, p, q) == RMul(R(2), RMul(al, p))
coef_centre(th, al, be, p, q) ==
    RMul(R(2), RAdd(RMul(al, p), RMul(R(th), RMul(be, RAbs(q)))))

\* parabolic._explicit with the weights of the two neighbours exchanged.
parabolic_explicit_step_swapped(u, th, al, be, k, p, q, r, s, j) ==
    [i \in DOMAIN u |-> [c \in DOMAIN u[i] |->
        IF c = j + 1 /\ i >= 1 /\ i <= Rows(u) - 2
        THEN RAdd(RAdd(RAdd(
                RMul(coef_upper(th, al, be, p[i][j+1], q[i][j+1]), u[i-1][j]),
                RMul(coef_lower(th, al, be, p[i][j+1], q[i][j+1]), u[i+1][j])),
                RMul(RSub(RAdd(One, RMul(k, r[i][j+1])),
                          coef_centre(th, al, be, p[i][j+1], q[i][j+1])), u[i][j])),
                RMul(k, s[i][j+1]))
        ELSE u[i][c]]]

\* One pass of the loop of parabolic._explicit: column j+1 from column j.
\* p, q, r, s are arrays of shape (xn-1, yn); p[i][j+1] is p[i-1, j].
parabolic_explicit_step(u, th, al, be, k, p, q, r, s, j) ==
    LET xn == Rows(u) - 1
        new(i) ==
            RAdd(RAdd(RAdd(
                RMul(coef_lower(th, al, be, p[i][j+1], q[i][j+1]), u[i-1][j]),
                RMul(coef_upper(th, al, be, p[i][j+1], q[i][j+1]), u[i+1][j])),
                RMul(RSub(RAdd(One, RMul(k, r[i][j+1])),
                          coef_centre(th, al, be, p[i][j+1], q[i][j+1])), u[i][j])),
                RMul(k, s[i][j+1]))
    IN  [i \in DOMAIN u |-> [c \in DOMAIN u[i] |->
            IF c = j + 1 /\ i >= 1 /\ i <= xn - 1 THEN new(i) ELSE u[i][c]]]

\* parabolic._set_mat with lower built from p[:-1], q[:-1] as upper is.
parabolic_set_mat_lower_shifted(th, al, be, k, p, q, r) ==
    [m \in 1..Len(p) |-> [c \in 1..Len(p) |->
        IF c = m THEN RSub(RAdd(R(-1), RMul(k, r[m])), coef_centre(th, al, be, p[m], q[m]))
        ELSE IF c = m + 1 THEN coef_upper(th, al, be, p[m], q[m])
        ELSE IF c = m - 1 THEN coef_lower(th, al, be, p[c], q[c])
        ELSE Zero]]

\* parabolic._set_mat; p, q, r are the columns p[:, j], q[:, j], r[:, j].
parabolic_set_mat(th, al, be, k, p, q, r) ==
    LET n == Len(p)
        main(m)  == RSub(RAdd(R(-1), RMul(k, r[m])), coef_centre(th, al, be, p[m], q[m]))
        upper(m) == coef_upper(th, al, be, p[m], q[m])
        lower(m) == coef_lower(th, al, be, p[m], q[m])
    IN  [m \in 1..n |-> [c \in 1..n |->
            IF c = m THEN main(m)
            ELSE IF c = m + 1 THEN upper(m)
            ELSE IF c = m - 1 THEN lower(m)
            ELSE Zero]]

\* parabolic._set_vec; u2 is u[:, j:j+2], given as u and j.
parabolic_set_vec(th, al, be, k, p, q, s, u, j) ==
    LET n  == Len(p)
        xn == Rows(u) - 1
        v0(m) == RSub(RNeg(u[m][j]), RMul(k, s[m]))
        v1(m) == IF m = 1
                 THEN RSub(v0(m), RMul(coef_lower(th, al, be, p[1], q[1]), u[0][j+1]))
                 ELSE v0(m)
    IN  [m \in 1..n |->
            IF m = n
            THEN RSub(v1(m), RMul(coef_upper(th, al, be, p[n], q[n]), u[xn][j+1]))
            ELSE v1(m)]

\* column j (0-based) of a coefficient array
ParamCol(a, j) == [m \in 1..Len(a) |-> a[m][j + 1]]

\* One pass of the loop of parabolic._implicit; <<>> when linalg.solve
\* raises.
parabolic_implicit_step(u, th, al, be, k, p, q, r, s, j) ==
    LET xn  == Rows(u) - 1
        pj  == ParamCol(p, j)
        qj  == ParamCol(q, j)
        mat == parabolic_set_mat(th, al, be, k, pj, qj, ParamCol(r, j))
        vec == parabolic_set_vec(th, al, be, k, pj, qj, ParamCol(s, j), u, j)
        x   == linalg_solve(mat, vec)
    IN  IF x = <<>> THEN <<>>
        ELSE [i \in DOMAIN u |-> [c \in DOMAIN u[i] |->
                IF c = j + 1 /\ i >= 1 /\ i <= xn - 1 THEN x[i] ELSE u[i][c]]]

\* -------------------------------------------------------------------- wave
\* wave._cal_constants: (alpha, h, k)
wave_cal_constants(xn, xf, yn, yf) ==
    LET h == RDiv(xf, R(xn))
        k == RDiv(yf, R(yn))
    IN  <<RDiv(RSq(k), RSq(h)), h, k>>

\* consts[0]**(-1), the value solve passes to _explicit and _implicit
wave_step_coefficient(consts) == RDiv(One, consts[1])

\* wave._set_first_row taking d_init[:-2] where the code takes
\* (u[:, 0] + k * d_init)[1:-1].
set_first_row_unsliced(u, h, k, d_init) ==
    IF ~Broadcastable(d_init, Rows(u)) THEN <<>>
    ELSE [i \in DOMAIN u |-> [c \in DOMAIN u[i] |->
            IF c = 1 /\ i >= 1 /\ i <= Rows(u) - 2
            THEN RAdd(RAdd(u[i][0], RMul(k, At(d_init, i - 1))),
                      RDiv(RMul(RDiv(RSq(k), R(2)),
                                RAdd(RSub(u[i+1][0], RMul(R(2), u[i][0])), u[i-1][0])),
                           RSq(h)))
            ELSE u[i][c]]]

\* wave._set_first_row: <<>> when u[:, 0] + k * d_init cannot be broadcast.
set_first_row(u, h, k, d_init) ==
    LET xn == Rows(u) - 1
        new(i) ==
            RAdd(RAdd(u[i][0], RMul(k, At(d_init, i))),
                 RDiv(RMul(RDiv(RSq(k), R(2)),
                           RAdd(RSub(u[i+1][0], RMul(R(2), u[i][0])), u[i-1][0])),
                      RSq(h)))
    IN  IF ~Broadcastable(d_init, xn + 1) THEN <<>>
        ELSE [i \in DOMAIN u |-> [c \in DOMAIN u[i] |->
                IF c = 1 /\ i >= 1 /\ i <= xn - 1 THEN new(i) ELSE u[i][c]]]

\* wave._explicit with the neighbours of level j-1 instead of level j.
wave_explicit_step_old_neighbours(u, a, j) ==
    [i \in DOMAIN u |-> [c \in DOMAIN u[i] |->
        IF c = j + 1 /\ i >= 1 /\ i <= Cardinality(DOMAIN u) - 2
        THEN RAdd(RSub(RMul(R(2), u[i][j]), u[i][j-1]),
                  RMul(a, RAdd(RSub(u[i+1][j-1], RMul(R(2), u[i][j])), u[i-1][j-1])))
        ELSE u[i][c]]]

\* One pass of the loop of wave._explicit: column j+1 from columns j, j-1.
wave_explicit_step(u, a, j) ==
    LET xn == Rows(u) - 1
        new(i) ==
            RAdd(RSub(RMul(R(2), u[i][j]), u[i][j-1]),
                 RMul(a, RAdd(RSub(u[i+1][j], RMul(R(2), u[i][j])), u[i-1][j])))
    IN  [i \in DOMAIN u |-> [c \in DOMAIN u[i] |->
            IF c = j + 1 /\ i >= 1 /\ i <= xn - 1 THEN new(i) ELSE u[i][c]]]

\* wave._set_mat
wave_set_mat(n, a) ==
    [m \in 1..n |-> [c \in 1..n |->
        IF c = m THEN RNeg(RMul(R(2), RAdd(One, a)))
        ELSE IF c = m + 1 \/ c = m - 1 THEN One
        ELSE Zero]]

\* wave._set_vec without the level-(j+1) boundary values.
wave_set_vec_no_boundary(a, u, j) ==
    [m \in 1..(Rows(u) - 2) |->
        RSub(RAdd(RSub(RNeg(u[m-1][j-1]), u[m+1][j-1]),
                  RMul(RMul(R(2), RAdd(One, a)), u[m][j-1])),
             RMul(RMul(R(4), a), u[m][j]))]

\* wave._set_vec; the argument u[:, j-1:j+2] is given as u and j.
wave_set_vec(a, u, j) ==
    LET xn == Rows(u) - 1
        n  == xn - 1
        v0(m) == RSub(RAdd(RSub(RNeg(u[m-1][j-1]), u[m+1][j-1]),
                           RMul(RMul(R(2), RAdd(One, a)), u[m][j-1])),
                      RMul(RMul(R(4), a), u[m][j]))
        v1(m) == IF m = 1 THEN RSub(v0(m), u[0][j+1]) ELSE v0(m)
    IN  [m \in 1..n |-> IF m = n THEN RSub(v1(m), u[xn][j+1]) ELSE v1(m)]

\* One pass of the loop of wave._implicit; <<>> when linalg.solve raises.
wave_implicit_step(u, a, j) ==
    LET xn  == Rows(u) - 1
        mat == wave_set_mat(xn - 1, a)
        vec == wave_set_vec(a, u, j)
        x   == linalg_solve(mat, vec)
    IN  IF x = <<>> THEN <<>>
        ELSE [i \in DOMAIN u |-> [c \in DOMAIN u[i] |->
                IF c = j + 1 /\ i >= 1 /\ i <= xn - 1 THEN x[i] ELSE u[i][c]]]

\* ------------------------------------------------------------ cells read
\* The cells of u (0-based <<i, c>>) a slice expression reads: rows lo..hi
\* of column c.
Slice(lo, hi, c) == {<<i, c>> : i \in lo..hi}

\* laplace._set_vec: u[0, 1:-1], u[-1, 1:-1], u[1:-1, 0], u[1:-1, -1]
laplace_set_vec_reads(xn, yn) ==
    {<<0, c>> : c \in 1..(yn - 1)} \cup {<<xn, c>> : c \in 1..(yn - 1)}
        \cup Slice(1, xn - 1, 0) \cup Slice(1, xn - 1, yn)

\* parabolic._explicit, pass j: u[:-2, j], u[2:, j], u[1:-1, j]
parabolic_explicit_reads(xn, j) ==
    Slice(0, xn - 2, j) \cup Slice(2, xn, j) \cup Slice(1, xn - 1, j)

\* parabolic._implicit with the interior of column j+1 among the cells read.
parabolic_implicit_reads_ahead(xn, j) == Slice(1, xn - 1, j) \cup Slice(0, xn, j + 1)

\* parabolic._implicit, pass j: _set_vec reads u[1:-1, 0], u[0, 1] and
\* u[-1, 1] of the view u[:, j:j+2].
parabolic_implicit_reads(xn, j) ==
    Slice(1, xn - 1, j) \cup {<<0, j + 1>>, <<xn, j + 1>>}

\* wave._set_first_row: u[:, 0], u[2:, 0], u[1:-1, 0], u[:-2, 0]
set_first_row_reads(xn) ==
    Slice(0, xn, 0) \cup Slice(2, xn, 0) \cup Slice(1, xn - 1, 0) \cup Slice(0, xn - 2, 0)

\* wave._explicit, pass j: u[1:-1, j], u[1:-1, j-1], u[2:, j], u[:-2, j]
wave_explicit_reads(xn, j) ==
    Slice(1, xn - 1, j) \cup Slice(1, xn - 1, j - 1)
        \cup Slice(2, xn, j) \cup Slice(0, xn - 2, j)

\* wave._implicit, pass j: _set_vec reads u[:-2, 0], u[2:, 0], u[1:-1, 0],
\* u[1:-1, 1], u[0, 2] and u[-1, 2] of the view u[:, j-1:j+2].
wave_implicit_reads(xn, j) ==
    Slice(0, xn - 2, j - 1) \cup Slice(2, xn, j - 1) \cup Slice(1, xn - 1, j - 1)
        \cup Slice(1, xn - 1, j) \cup {<<0, j + 1>>, <<xn, j + 1>>}

\* What is recorded of a statement that computes level lv of the array w
\* from the cells rd: the cells, and those of them that np.empty left
\* without a value and no assignment has filled since.
ReadEntry(w, lv, rd) ==
    [level |-> lv, cells |-> rd, unassigned |-> {cell \in rd : ~IsSet(w[cell[1]][cell[2]])}]

\* ------------------------------------------------- parameter materializer
\* _mesh_int_grid returning the x mesh first.
mesh_int_grid_swapped(y, x) ==
    << [i \in 1..(Len(x) - 2) |-> [c \in 1..(Len(y) - 1) |-> x[i + 1]]],
       [i \in 1..(Len(x) - 2) |-> [c \in 1..(Len(y) - 1) |-> y[c]]] >>

\* TimeDependent._mesh_int_grid(y, x) = np.meshgrid(y[:-1], x[1:-1]):
\* two arrays of shape (len(x)-2, len(y)-1), the first holding y[j] and
\* the second x[i+1] at [i, j] (0-based).
mesh_int_grid(y, x) ==
    << [i \in 1..(Len(x) - 2) |-> [c \in 1..(Len(y) - 1) |-> y[c]]],
       [i \in 1..(Len(x) - 2) |-> [c \in 1..(Len(y) - 1) |-> x[i + 1]]] >>

\* The functions of (x, y) passed as coefficients.
ApplyFn(name, x, y) ==
    CASE name = "x_minus_2" -> RSub(x, R(2))
      [] name = "one_plus_y" -> RAdd(One, y)
      [] name = "y_minus_x" -> RSub(y, x)

\* Base._set_parameters for one element of params
set_parameter(prm, x, y) ==
    IF prm.kind = "func"
    THEN LET mesh == mesh_int_grid(y, x)
             y_m  == mesh[1]
             x_m  == mesh[2]
         IN  PArray([i \in 1..Len(x_m) |-> [c \in 1..Len(x_m[i]) |->
                        ApplyFn(prm.fn, x_m[i][c], y_m[i][c])]])
    ELSE IF prm.kind = "scalar"
    THEN PArray([i \in 1..(Len(x) - 2) |-> [c \in 1..(Len(y) - 1) |-> RMul(prm.s, One)]])
    ELSE prm

\* The two list objects _set_parameters can name: the list the caller
\* passed and the list made inside the call.  "_params = params" would bind
\* the local name to the caller's list.
list_alias(prms) == "caller"

\* _params = list(params): the local name is bound to a new list object
\* that holds the same elements.
list_copy(prms) == "local"

\* _params[i] = v on the list object ref of the heap h
StoreItem(h, ref, i, v) == [h EXCEPT ![ref] = [@ EXCEPT ![i] = v]]

\* The loop of Base._set_parameters from index i on: a function or a
\* scalar element is replaced, in the list named _params, by its array.
RECURSIVE set_parameters_loop(_, _, _, _, _)
set_parameters_loop(h, ref, i, x, y) ==
    IF i > Len(h[ref]) THEN h
    ELSE set_parameters_loop(
             IF h[ref][i].kind \in {"func", "scalar"}
             THEN StoreItem(h, ref, i, set_parameter(h[ref][i], x, y))
             ELSE h,
             ref, i + 1, x, y)

\* Base._set_parameters on the heap of the two lists: what the caller's
\* list holds afterwards and the list that is returned.
set_parameters_heap(prms, x, y) ==
    LET ref == list_copy(prms)
        h   == set_parameters_loop([r \in {"caller", "local"} |-> prms], ref, 1, x, y)
    IN  [caller |-> h["caller"], returned |-> h[ref]]

\* Base._set_parameters: the list it returns
set_parameters(prms, x, y) == set_parameters_heap(prms, x, y).returned

\* ------------------------------------------------------------------ inputs
Extents == {R(1), R(2)}
StepPairs == {<<1, 1>>, <<1, 2>>, <<2, 1>>}

\* Domains (xn, xf, yn, yf) of the time-dependent solvers: those with
\* integer steps h and k, and those with the extents of the tests and,
\* as in the wave tests, h = k.
GridDomains ==
    {<<g[1], R(g[1] * sp[1]), g[2], R(g[2] * sp[2])>> :
        g \in (2..MaxXn) \X (1..MaxYn), sp \in StepPairs}
UnitDomains ==
    {d \in (2..MaxXn) \X Extents \X (1..MaxYn) \X Extents :
        RMul(d[2], R(d[3])) = RMul(d[4], R(d[1]))}
TimeDomains == GridDomains \cup UnitDomains

\* Domains of the Laplace solver: integer steps, and systems small enough
\* for exact elimination (smaller still when the two steps differ).
Unknowns(d) == (d[1] - 1) * (d[3] - 1)
EqualSteps(d) == RDiv(d[2], R(d[1])) = RDiv(d[4], R(d[3]))
LaplaceDomains ==
    {d \in {<<g[1], R(g[1] * sp[1]), g[2], R(g[2] * sp[2])>> :
                g \in (2..MaxXn) \X (2..MaxYn), sp \in StepPairs} :
        Unknowns(d) <= (IF EqualSteps(d) THEN MaxUnknowns ELSE MaxSkewUnknowns)}

AxisOf(d) == set_axis(d[1], d[2], d[3], d[4])

\* The harmonic polynomial of the Laplace tests, and x^2 - y^2.
f_test(x, y) == RSub(RSq(RSub(x, One)), RSq(RSub(y, R(2))))
f_x2_y2(x, y) == RSub(RSq(x), RSq(y))
Harmonic(name, x, y) == IF name = "test" THEN f_test(x, y) ELSE f_x2_y2(x, y)

\* The four edges sampled from a function, as the Laplace tests do.
SampledEdges(name, x, y) ==
    << Arr([c \in 1..Len(y) |-> Harmonic(name, x[1], y[c])]),
       Arr([c \in 1..Len(y) |-> Harmonic(name, x[Len(x)], y[c])]),
       Arr([i \in 1..Len(x) |-> Harmonic(name, x[i], y[1])]),
       Arr([i \in 1..Len(x) |-> Harmonic(name, x[i], y[Len(y)])]) >>

\* The exact solution of the wave tests: x(1-x) + y(1-y).
WaveExact(x, y) == RAdd(RMul(x, RSub(One, x)), RMul(y, RSub(One, y)))

\* (d_init, init, bound_x0, bound_xf) sampled from WaveExact.
WaveTestConds(x, y) ==
    << Scalar(One),
       Arr([i \in 1..Len(x) |-> WaveExact(x[i], Zero)]),
       Arr([c \in 1..Len(y) |-> WaveExact(x[1], y[c])]),
       Arr([c \in 1..Len(y) |-> WaveExact(x[Len(x)], y[c])]) >>

\* Scalar conditions that disagree at the corners, and a vector d_init.
WaveScalarConds == <<Scalar(Zero), Scalar(One), Scalar(Zero), Scalar(R(2))>>
WaveVectorConds(x, y) ==
    << Arr(x), Arr([i \in 1..Len(x) |-> RSq(x[i])]), Scalar(Zero),
       Arr([c \in 1..Len(y) |-> RAdd(RSq(x[Len(x)]), y[c])]) >>

\* Conditions given as arrays: the initial condition x^2 - 4x + 5 and two
\* boundaries 5(1 - y) that fall linearly from the corner value 5.
ParabolicDecayConds(x, y) ==
    << Arr([i \in 1..Len(x) |-> RAdd(RSub(RSq(x[i]), RMul(R(4), x[i])), R(5))]),
       Arr([c \in 1..Len(y) |-> RMul(R(5), RSub(One, y[c]))]),
       Arr([c \in 1..Len(y) |-> RMul(R(5), RSub(One, y[c]))]) >>
\* u = x + y, an exact solution for p = 1, q = 1, r = 0, s = 0.
ParabolicLinearConds(x, y) ==
    << Arr(x), Arr([c \in 1..Len(y) |-> RAdd(x[1], y[c])]),
       Arr([c \in 1..Len(y) |-> RAdd(x[Len(x)], y[c])]) >>
ParabolicScalarConds == <<Scalar(One), Scalar(Zero), Scalar(R(2))>>
ConstConds(c) == <<Scalar(c), Scalar(c), Scalar(c)>>
LaplaceScalarConds == <<Scalar(One), Scalar(R(2)), Scalar(R(3)), Scalar(R(4))>>

\* An array condition resized to length len (cut, or padded with zeros).
Resized(c, len) ==
    Arr([i \in 1..len |->
            IF c.kind = "scalar" THEN c.a[1] ELSE IF i <= Len(c.a) THEN c.a[i] ELSE Zero])

\* The length each condition is written into (d_init is added to a column).
TargetLens(slv, xn, yn) ==
    CASE slv = "laplace" -> <<yn + 1, yn + 1, xn + 1, xn + 1>>
      [] slv = "parabolic" -> <<xn + 1, yn + 1, yn + 1>>
      [] slv = "wave" -> <<xn + 1, xn + 1, yn + 1, yn + 1>>

\* cs with one condition replaced by an array of another length.
Mismatched(cs, tl) ==
    UNION {{[cs EXCEPT ![n] = Resized(cs[n], len)] :
                len \in {1, tl[n] - 1, tl[n] + 1}} : n \in 1..Len(cs)}

\* Coefficients (p, q, r, s): the scalars of the tests, the same values
\* as constant arrays, the functions of core.py, and varying arrays.
ConstArray(c, rows, cols) == PArray([i \in 1..rows |-> [k \in 1..cols |-> c]])
TestParams == <<PScalar(One), PScalar(One), PScalar(R(-3)), PScalar(R(3))>>
TestParamArrays(xn, yn) ==
    << ConstArray(One, xn - 1, yn), ConstArray(One, xn - 1, yn),
       ConstArray(R(-3), xn - 1, yn), ConstArray(R(3), xn - 1, yn) >>
AdvectionParams == <<PScalar(One), PScalar(One), PScalar(Zero), PScalar(Zero)>>
AdvectionParamArrays(xn, yn) ==
    << ConstArray(One, xn - 1, yn), ConstArray(One, xn - 1, yn),
       ConstArray(Zero, xn - 1, yn), ConstArray(Zero, xn - 1, yn) >>
CoreTestParams == <<PScalar(One), PFunc("x_minus_2"), PScalar(R(-3)), PScalar(Zero)>>
FuncParams == <<PFunc("one_plus_y"), PFunc("y_minus_x"), PScalar(Zero), PScalar(Zero)>>
VaryingParams(xn, yn) ==
    << PArray([i \in 1..(xn - 1) |-> [k \in 1..yn |-> R(i)]]),
       PArray([i \in 1..(xn - 1) |-> [k \in 1..yn |-> R(k - i)]]),
       PArray([i \in 1..(xn - 1) |-> [k \in 1..yn |-> R(1 - k)]]),
       PArray([i \in 1..(xn - 1) |-> [k \in 1..yn |-> R(i + k)]]) >>

\* Diffusion and drift that change from node to node and level to level,
\* the drift with both signs; no reaction and no source term.
DriftParams(xn, yn) ==
    << PArray([i \in 1..(xn - 1) |-> [k \in 1..yn |-> R(i)]]),
       PArray([i \in 1..(xn - 1) |-> [k \in 1..yn |-> R(k - i)]]),
       ConstArray(Zero, xn - 1, yn), ConstArray(Zero, xn - 1, yn) >>

NoParams == <<>>

\* ------------------------------------------------------------------- state
VARIABLES
    api,      \* "pde": the modules of src/pde; "core": the classes of core.py
    solver,   \* "laplace", "parabolic" or "wave"
    domain,   \* the domain argument: (xn, xf, yn, yf) or a pair of axes
    conds,    \* the conds argument
    params,   \* the params argument (parabolic), <<>> otherwise
    method,   \* the method argument
    pc,       \* the statement of solve to execute next
    err,      \* the exception that ended solve, "" if none
    u,        \* the solution array, <<>> before it is allocated
    consts,   \* the result of _cal_constants, <<>> before
    theta,    \* the blending parameter, -1 before it is set
    prm,      \* the materialized coefficients (core), <<>> before
    axis,     \* the axes built by _set_axis (core), <<>> before
    j,        \* the loop variable of _explicit / _implicit
    writes,   \* the number of assignments made to each cell of u
    reads,    \* the cells of u read by each statement that computed a
              \* level, in order: [level, cells, unassigned]
    valid_methods, \* ValidateMethod.valid_methods
    call_args,     \* the positional arguments of a call of the wrapper
    call_kwargs,   \* its keyword arguments, a set of <<name, value>>
    func_calls,    \* the calls of the wrapped function: <<args, kwargs>>
    func_result,   \* what the wrapper returned, <<>> if nothing
    history        \* the calls of solve so far, the current one last:
                   \* the arguments as passed and the array returned

vars == <<api, solver, domain, conds, params, method, pc, err, u, consts,
          theta, prm, axis, j, writes, reads, valid_methods, call_args, call_kwargs,
          func_calls, func_result, history>>

inputs == <<api, solver, domain, conds, params, method, valid_methods,
            call_args, call_kwargs>>
wrapped == <<func_calls, func_result>>

\* The statements of solve, in order.
Program(a, slv) ==
    CASE slv = "laplace" /\ a = "pde" ->
            <<"check_method", "set_u", "cal_constants", "implicit", "return">>
      [] slv = "laplace" /\ a = "core" ->
            <<"check_method", "cal_constants", "set_u", "implicit", "return">>
      [] slv = "parabolic" /\ a = "pde" ->
            <<"check_method", "set_u", "cal_constants", "set_theta", "loop", "return">>
      [] slv = "parabolic" /\ a = "core" ->
            <<"check_method", "set_axis", "set_parameters", "cal_constants",
              "set_u", "set_theta", "loop", "return">>
      [] slv = "wave" /\ a = "pde" ->
            <<"check_method", "set_u", "cal_constants", "set_first_row", "loop", "return">>
      [] slv = "wave" /\ a = "core" ->
            <<"check_method", "cal_constants", "set_u", "set_first_row", "loop", "return">>
      [] slv = "axis" ->
            <<"set_axis", "return">>
      [] slv = "steady.set_u" ->
            <<"set_u", "return">>

\* The statement after stmt.
After(stmt) ==
    LET prog == Program(api, solver)
        n    == CHOOSE k \in 1..Len(prog) : prog[k] = stmt
    IN  prog[n + 1]

\* The loop bounds of _explicit / _implicit: np.arange(first, u.shape[1]-1).
FirstLevel == IF solver = "wave" THEN 1 ELSE 0
LastLevel == Cols(u) - 2

\* Laplace() / Parabolic() / Wave(): the object a call of core.laplace,
\* core.parabolic or core.wave constructs, with the attribute __init__
\* sets.  The functions of the modules pde.laplace, ... use no object.
NewSolver(a, slv) ==
    IF a = "core" /\ slv \in {"laplace", "parabolic", "wave"}
    THEN [cls |-> slv, methods |-> METHODS(slv)]
    ELSE [cls |-> "", methods |-> {}]

\* One call in the history of a session: the arguments as passed, the
\* objects of the caller they come from (1: those of the first call, 2:
\* those of the call of another solver), the solver object constructed for
\* the call, and, once the call has returned, the array returned and the
\* caller's argument objects as the call left them.
Call(c, o) ==
    [args |-> c, obj |-> o, self |-> NewSolver(c[1], c[2]), result |-> <<>>, after |-> <<>>]

Start(a, slv, d, cs, ps, m) ==
    /\ api = a /\ solver = slv /\ domain = d /\ conds = cs /\ params = ps
    /\ method = m
    /\ pc = Program(a, slv)[1] /\ err = ""
    /\ u = <<>> /\ consts = <<>> /\ theta = -1 /\ prm = <<>> /\ axis = <<>>
    /\ j = -1 /\ writes = <<>> /\ reads = <<>>
    /\ valid_methods = {} /\ call_args = <<>> /\ call_kwargs = {}
    /\ func_calls = <<>> /\ func_result = <<>>
    /\ history = << Call(<<a, slv, d, cs, ps, m>>, 1) >>

Raise(e) ==
    /\ pc' = "raised" /\ err' = e
    /\ UNCHANGED <<inputs, wrapped, history, u, consts, theta, prm, axis, j, writes, reads>>

\* pc' and the loop variable on entering the statement after stmt
Goto(stmt) ==
    /\ pc' = After(stmt)
    /\ j' = IF After(stmt) = "loop" THEN FirstLevel ELSE j
    /\ err' = err

\* w with one more assignment counted for the interior cells (rows 1 to
\* xn-1) of the columns lo to hi: the target u[1:-1, lo:hi+1]
Written(w, xn, lo, hi) ==
    [i \in DOMAIN w |-> [c \in DOMAIN w[i] |->
        IF i >= 1 /\ i <= xn - 1 /\ c >= lo /\ c <= hi THEN w[i][c] + 1 ELSE w[i][c]]]

\* The assignments set_u makes: one per cell of each row or column that
\* is assigned, in a fresh array.
SetUWrites(slv, xn, yn) ==
    [i \in 0..xn |-> [c \in 0..yn |->
        (IF i = 0 THEN 1 ELSE 0) + (IF i = xn THEN 1 ELSE 0)
        + (IF c = 0 THEN 1 ELSE 0)
        + (IF slv = "laplace" /\ c = yn THEN 1 ELSE 0)]]

\* ----------------------------------------------------------------- actions
\* base.check_method(method, _METHODS) / self._check_mthd(mthd)
CheckMethod ==
    /\ pc = "check_method"
    /\ IF check_method(method, IF api = "core" THEN history[Len(history)].self.methods
                                ELSE METHODS(solver))
       THEN /\ Goto("check_method")
            /\ UNCHANGED <<inputs, wrapped, history, u, consts, theta, prm, axis, writes, reads>>
       ELSE Raise("SystemExit")

\* axis = self._set_axis(*domain)
SetAxis ==
    /\ pc = "set_axis"
    /\ IF Len(domain) # 4 THEN Raise("TypeError")
       ELSE IF linspace_raises(domain[1]) \/ linspace_raises(domain[3])
       THEN Raise("ValueError")
       ELSE /\ axis' = set_axis(domain[1], domain[2], domain[3], domain[4])
            /\ Goto("set_axis")
            /\ UNCHANGED <<inputs, wrapped, history, u, consts, theta, prm, writes, reads>>

\* params = self._set_parameters(params, *axis)
SetParameters ==
    /\ pc = "set_parameters"
    /\ prm' = set_parameters(params, axis[1], axis[2])
    /\ params' = set_parameters_heap(params, axis[1], axis[2]).caller
    /\ Goto("set_parameters")
    /\ UNCHANGED <<api, solver, domain, conds, method, valid_methods, call_args,
                   call_kwargs, wrapped, history, u, consts, theta, axis, writes, reads>>

\* u = set_u(*domain[::2], *conds); the wave solver passes conds[1:].
\* pdepy.steady.set_u is called with the two axes and the four conditions.
SetU ==
    /\ pc = "set_u"
    /\ LET axes  == solver = "steady.set_u"
           args  == IF axes THEN domain \o conds
                    ELSE EvenSlice(domain) \o (IF solver = "wave" THEN Tail(conds) ELSE conds)
           arity == IF axes \/ solver = "laplace" THEN 6 ELSE 5
           nu    == IF axes
                    THEN pdepy_steady_set_u(args[1], args[2], args[3], args[4], args[5],
                                            args[6])
                    ELSE IF solver = "laplace"
                    THEN steady_set_u(args[1], args[2], args[3], args[4], args[5], args[6])
                    ELSE time_set_u(args[1], args[2], args[3], args[4], args[5])
           xn    == IF axes THEN Len(args[1]) - 1 ELSE args[1]
           yn    == IF axes THEN Len(args[2]) - 1 ELSE args[2]
       IN  IF Len(args) # arity THEN Raise("TypeError")
           ELSE IF nu = <<>> THEN Raise("ValueError")
           ELSE /\ u' = nu
                /\ writes' = SetUWrites(IF axes THEN "laplace" ELSE solver, xn, yn)
                /\ reads' = <<>>
                /\ Goto("set_u")
                /\ UNCHANGED <<inputs, wrapped, history, consts, theta, prm, axis>>

\* consts = _cal_constants(*domain)
CalConstants ==
    /\ pc = "cal_constants"
    /\ IF Len(domain) # 4 THEN Raise("TypeError")
       ELSE /\ consts' =
                 CASE solver = "laplace" ->
                        laplace_cal_constants(domain[1], domain[2], domain[3], domain[4])
                   [] solver = "parabolic" ->
                        parabolic_cal_constants(domain[1], domain[2], domain[3], domain[4])
                   [] solver = "wave" ->
                        wave_cal_constants(domain[1], domain[2], domain[3], domain[4])
            /\ Goto("cal_constants")
            /\ UNCHANGED <<inputs, wrapped, history, u, theta, prm, axis, writes, reads>>

\* theta = _set_theta(method)
SetTheta ==
    /\ pc = "set_theta"
    /\ theta' = set_theta(method)
    /\ Goto("set_theta")
    /\ UNCHANGED <<inputs, wrapped, history, u, consts, prm, axis, writes, reads>>

\* _set_first_row(u, *consts[1:], conds[0])
SetFirstRow ==
    /\ pc = "set_first_row"
    /\ LET nu == set_first_row(u, consts[2], consts[3], conds[1])
       IN  IF nu = <<>> THEN Raise("ValueError")
           ELSE /\ u' = nu
                /\ writes' = Written(writes, Rows(u) - 1, 1, 1)
                /\ reads' = Append(reads, ReadEntry(u, 1, set_first_row_reads(Rows(u) - 1)))
                /\ Goto("set_first_row")
                /\ UNCHANGED <<inputs, wrapped, history, consts, theta, prm, axis>>

\* The coefficient arrays the parabolic loops index: the materialized
\* ones in core.py, the params argument itself in parabolic.py.
LoopParams == IF api = "core" THEN prm ELSE params

\* The end of one pass of a loop that stored nu in u; <<>> is an exception
\* raised by linalg.solve.
EndPass(nu, rd) ==
    IF nu = <<>> THEN Raise("LinAlgError")
    ELSE /\ u' = nu
         /\ writes' = Written(writes, Rows(u) - 1, j + 1, j + 1)
         /\ reads' = Append(reads, ReadEntry(u, j + 1, rd))
         /\ j' = j + 1
         /\ UNCHANGED <<inputs, wrapped, history, pc, err, consts, theta, prm, axis>>

\* One pass of the loop of parabolic._explicit.  Indexing a coefficient
\* that is no array (p[:, j]) raises TypeError.
ParabolicExplicit ==
    /\ pc = "loop" /\ solver = "parabolic" /\ FirstCharIsE(method)
    /\ j <= LastLevel
    /\ LET ps == LoopParams
       IN  IF \E n \in 1..4 : ps[n].kind # "array" THEN Raise("TypeError")
           ELSE EndPass(parabolic_explicit_step(u, theta, consts[1], consts[2], consts[3],
                            ps[1].arr, ps[2].arr, ps[3].arr, ps[4].arr, j),
                        parabolic_explicit_reads(Rows(u) - 1, j))

\* One pass of the loop of parabolic._implicit.
ParabolicImplicit ==
    /\ pc = "loop" /\ solver = "parabolic" /\ ~FirstCharIsE(method)
    /\ j <= LastLevel
    /\ LET ps == LoopParams
       IN  IF \E n \in 1..4 : ps[n].kind # "array" THEN Raise("TypeError")
           ELSE EndPass(parabolic_implicit_step(u, theta, consts[1], consts[2], consts[3],
                            ps[1].arr, ps[2].arr, ps[3].arr, ps[4].arr, j),
                        parabolic_implicit_reads(Rows(u) - 1, j))

\* One pass of the loop of wave._explicit.
WaveExplicit ==
    /\ pc = "loop" /\ solver = "wave" /\ method = "e"
    /\ j <= LastLevel
    /\ EndPass(wave_explicit_step(u, wave_step_coefficient(consts), j),
               wave_explicit_reads(Rows(u) - 1, j))

\* One pass of the loop of wave._implicit.
WaveImplicit ==
    /\ pc = "loop" /\ solver = "wave" /\ method = "i"
    /\ j <= LastLevel
    /\ EndPass(wave_implicit_step(u, wave_step_coefficient(consts), j),
               wave_implicit_reads(Rows(u) - 1, j))

\* The loop of _explicit / _implicit is exhausted.
LoopExit ==
    /\ pc = "loop"
    /\ j > LastLevel
    /\ pc' = After("loop")
    /\ UNCHANGED <<inputs, wrapped, history, err, u, consts, theta, prm, axis, j, writes, reads>>

\* laplace._implicit(u, *domain[::2], *consts)
LaplaceImplicit ==
    /\ pc = "implicit"
    /\ LET nu == laplace_implicit(u, domain[1], domain[3], consts[1], consts[2])
       IN  IF nu = <<>> THEN Raise("LinAlgError")
           ELSE /\ u' = nu
                /\ writes' = Written(writes, domain[1], 1, domain[3] - 1)
                /\ reads' = Append(reads, ReadEntry(u, 1,
                                   laplace_set_vec_reads(domain[1], domain[3])))
                /\ Goto("implicit")
                /\ UNCHANGED <<inputs, wrapped, history, consts, theta, prm, axis>>

\* The contents a block of memory handed out by np.empty may still hold:
\* nothing, or an array returned by an earlier call of the session.
StaleBlocks == {<<>>} \cup {history[n].result : n \in 1..(Len(history) - 1)}

\* return u
Return ==
    /\ pc = "return"
    /\ pc' = "returned"
    /\ \E old \in StaleBlocks :
          history' = [history EXCEPT ![Len(history)].result = Observed(u, old),
                                     ![Len(history)].after =
                                         <<api, solver, domain, conds, params, method>>]
    /\ UNCHANGED <<inputs, wrapped, err, u, consts, theta, prm, axis, j, writes, reads>>

\* The caller calls a solver again once a solve has returned: the first
\* call of the session once more, with the same argument objects as the
\* calls so far have left them, or, right after the first call, a call of
\* another solver.  Every call builds its own solver object and locals.
OtherCalls(slv) ==
    {c \in { <<"pde", "laplace", <<2, R(2), 2, R(2)>>, LaplaceScalarConds, NoParams, "c">>,
             <<"core", "parabolic", <<2, R(2), 1, R(1)>>, ParabolicScalarConds,
               TestParams, "ec">>,
             <<"core", "wave", <<2, R(2), 2, R(2)>>, WaveScalarConds, NoParams, "e">> } :
        c[2] # slv}
InSession(d) == Len(d) = 4 /\ (d[1] + 1) * (d[3] + 1) <= MaxSessionNodes
Held ==
    history[CHOOSE n \in 1..Len(history) :
                /\ history[n].obj = 1
                /\ \A m \in (n + 1)..Len(history) : history[m].obj # 1].after
NextCall ==
    /\ pc = "returned" /\ solver \in {"laplace", "parabolic", "wave"}
    /\ Len(history) < MaxCalls /\ InSession(history[1].args[3])
    /\ \E c \in {Call(Held, 1)}
                  \cup (IF Len(history) = 1 THEN {Call(a, 2) : a \in OtherCalls(solver)}
                        ELSE {}) :
          /\ api' = c.args[1] /\ solver' = c.args[2] /\ domain' = c.args[3]
          /\ conds' = c.args[4] /\ params' = c.args[5] /\ method' = c.args[6]
          /\ history' = Append(history, c)
          /\ pc' = Program(c.args[1], c.args[2])[1]
    /\ err' = "" /\ u' = <<>> /\ consts' = <<>> /\ theta' = -1 /\ prm' = <<>>
    /\ axis' = <<>> /\ j' = -1 /\ writes' = <<>> /\ reads' = <<>>
    /\ UNCHANGED <<valid_methods, call_args, call_kwargs, wrapped>>

\* ---------------------------------------------------------- validate_method
\* kwargs[name]; the caller checks that the key is present.
KwValue(kwargs, name) == (CHOOSE kv \in kwargs : kv[1] = name)[2]
HasKey(kwargs, name) == \E kv \in kwargs : kv[1] = name

\* The value the wrapped function returns for a call.
FuncResult(args, kwargs) == <<"func", args, kwargs>>

\* The wrapper calling the function before it validates the method.
WrapperCallFirst ==
    /\ pc = "wrapper"
    /\ func_calls' = Append(func_calls, <<call_args, call_kwargs>>)
    /\ IF ~HasKey(call_kwargs, "method")
       THEN pc' = "raised" /\ err' = "KeyError" /\ func_result' = func_result
       ELSE IF KwValue(call_kwargs, "method") \notin valid_methods
       THEN pc' = "raised" /\ err' = "Exception" /\ func_result' = func_result
       ELSE /\ func_result' = FuncResult(call_args, call_kwargs)
            /\ pc' = "returned" /\ err' = err
    /\ UNCHANGED <<inputs, history, u, consts, theta, prm, axis, j, writes, reads>>

\* The wrapper taking the method from the first positional argument when
\* the keyword is absent.
WrapperCallPositional ==
    /\ pc = "wrapper"
    /\ LET given == HasKey(call_kwargs, "method") \/ call_args # <<>>
           m == IF HasKey(call_kwargs, "method") THEN KwValue(call_kwargs, "method")
                ELSE IF call_args # <<>> THEN call_args[1] ELSE ""
       IN  IF ~given
           THEN /\ pc' = "raised" /\ err' = "KeyError"
                /\ UNCHANGED wrapped
           ELSE IF m \notin valid_methods
           THEN /\ pc' = "raised" /\ err' = "Exception"
                /\ UNCHANGED wrapped
           ELSE /\ func_calls' = Append(func_calls, <<call_args, call_kwargs>>)
                /\ func_result' = FuncResult(call_args, call_kwargs)
                /\ pc' = "returned" /\ err' = err
    /\ UNCHANGED <<inputs, history, u, consts, theta, prm, axis, j, writes, reads>>

\* ValidateMethod.__call__.wrapper(*args, **kwargs)
WrapperCall ==
    /\ pc = "wrapper"
    /\ IF ~HasKey(call_kwargs, "method")
       THEN /\ pc' = "raised" /\ err' = "KeyError"
            /\ UNCHANGED wrapped
       ELSE IF KwValue(call_kwargs, "method") \notin valid_methods
       THEN /\ pc' = "raised" /\ err' = "Exception"
            /\ UNCHANGED wrapped
       ELSE /\ func_calls' = Append(func_calls, <<call_args, call_kwargs>>)
            /\ func_result' = FuncResult(call_args, call_kwargs)
            /\ pc' = "returned" /\ err' = err
    /\ UNCHANGED <<inputs, history, u, consts, theta, prm, axis, j, writes, reads>>

\* ------------------------------------------------------------ initial states
LaplaceCases(d) ==
    LET ax   == AxisOf(d)
        test == SampledEdges("test", ax[1], ax[2])
    IN  ({test, SampledEdges("x2_y2", ax[1], ax[2]), LaplaceScalarConds}
            \cup Mismatched(test, TargetLens("laplace", d[1], d[3]))) \X {"c"}
        \cup ({test} \X {"ic", "x"})

\* The methods tried on data that is not an exact solution: the implicit
\* ones only where the loop solves at most MaxImplicitWork unknowns.
Passes(slv, d) == IF slv = "wave" THEN d[3] - 1 ELSE d[3]
GenericMethods(slv, d) ==
    {m \in METHODS(slv) :
        FirstCharIsE(m) \/ (d[1] - 1) * Passes(slv, d) <= MaxImplicitWork}

WaveCases(d) ==
    LET ax   == AxisOf(d)
        test == WaveTestConds(ax[1], ax[2])
    IN  ({test} \X {"e", "i"})
        \cup ({test} \X {"ic", "x"})
        \cup IF d \in GridDomains
              THEN ({WaveScalarConds, WaveVectorConds(ax[1], ax[2])}
                        \X GenericMethods("wave", d))
                   \cup (Mismatched(test, TargetLens("wave", d[1], d[3])) \X {"e"})
              ELSE {}

ParabolicCases(d) ==
    LET ax     == AxisOf(d)
        test   == ParabolicDecayConds(ax[1], ax[2])
        arrays == TestParamArrays(d[1], d[3])
        vary   == VaryingParams(d[1], d[3])
    IN  ({ParabolicLinearConds(ax[1], ax[2]), ConstConds(R(3))}
                \X {AdvectionParams, AdvectionParamArrays(d[1], d[3])}
                \X PARABOLIC_METHODS)
        \cup ({ConstConds(R(3))} \X {DriftParams(d[1], d[3])} \X PARABOLIC_METHODS)
        \cup ({test} \X {arrays} \X {"e", "c"})
        \cup IF d \in GridDomains
              THEN ({test} \X {TestParams, arrays, CoreTestParams, FuncParams, vary}
                        \X GenericMethods("parabolic", d))
                   \cup ({ParabolicScalarConds} \X {arrays, vary}
                        \X GenericMethods("parabolic", d))
                   \cup (Mismatched(test, TargetLens("parabolic", d[1], d[3]))
                        \X {arrays} \X {"ec"})
              ELSE {}

InitLaplace ==
    \E a \in {"pde", "core"}, d \in LaplaceDomains :
        \E cs \in LaplaceCases(d) : Start(a, "laplace", d, cs[1], NoParams, cs[2])

InitWave ==
    \E a \in {"pde", "core"}, d \in TimeDomains :
        \E cs \in WaveCases(d) : Start(a, "wave", d, cs[1], NoParams, cs[2])

InitParabolic ==
    \E a \in {"pde", "core"}, d \in TimeDomains :
        \E cs \in ParabolicCases(d) : Start(a, "parabolic", d, cs[1], cs[2], cs[3])

\* solve called with a pre-built pair of axes as the domain
InitAxes ==
    \E a \in {"pde", "core"}, d \in GridDomains :
        LET ax == AxisOf(d)
        IN  \/ Start(a, "wave", ax, WaveTestConds(ax[1], ax[2]), NoParams, "e")
            \/ Start(a, "parabolic", ax, ParabolicDecayConds(ax[1], ax[2]),
                     TestParamArrays(d[1], d[3]), "ec")
            \/ /\ d[3] >= 2
               /\ Start(a, "laplace", ax, SampledEdges("test", ax[1], ax[2]), NoParams, "c")

\* set_axis called on its own, degenerate partition counts included.
AxisCounts == (-2)..2
InitSetAxis ==
    \E a \in {"pde", "core"}, xn \in AxisCounts, yn \in AxisCounts, xf \in Extents,
       yf \in Extents :
        Start(a, "axis", <<xn, xf, yn, yf>>, <<>>, NoParams, "")

\* pdepy.steady.set_u called with the axes of a grid and four conditions.
InitSteadySetU ==
    \E d \in GridDomains :
        LET ax   == AxisOf(d)
            test == SampledEdges("test", ax[1], ax[2])
        IN  \E cs \in {test, LaplaceScalarConds}
                          \cup Mismatched(test, TargetLens("laplace", d[1], d[3])) :
                Start("pdepy", "steady.set_u", ax, cs, NoParams, "")

WrapperMethods == {"m1", "m2", "ic"}
InitWrapper ==
    /\ valid_methods \in SUBSET WrapperMethods
    /\ call_args \in {<<>>, <<"m1">>, <<"m3">>}
    /\ call_kwargs \in {kw \in SUBSET (({"method"} \X {"m1", "m2", "m3"})
                                          \cup {<<"flag", "on">>}) :
                           \A p, q \in kw : p[1] = q[1] => p = q}
    /\ func_calls = <<>> /\ func_result = <<>>
    /\ api = "pdepy" /\ solver = "" /\ domain = <<>> /\ conds = <<>>
    /\ params = <<>> /\ method = ""
    /\ pc = "wrapper" /\ err = ""
    /\ u = <<>> /\ consts = <<>> /\ theta = -1 /\ prm = <<>> /\ axis = <<>>
    /\ j = -1 /\ writes = <<>> /\ reads = <<>>
    /\ history = <<>>

Init ==
    InitLaplace \/ InitWave \/ InitParabolic \/ InitAxes \/ InitWrapper \/ InitSetAxis
        \/ InitSteadySetU

Next ==
    \/ CheckMethod
    \/ SetAxis
    \/ SetParameters
    \/ SetU
    \/ CalConstants
    \/ SetTheta
    \/ SetFirstRow
    \/ ParabolicExplicit
    \/ ParabolicImplicit
    \/ WaveExplicit
    \/ WaveImplicit
    \/ LoopExit
    \/ LaplaceImplicit
    \/ Return
    \/ NextCall
    \/ WrapperCall

Spec == Init /\ [][Next]_vars

\* ===================================================================== claims
Solvers == {"laplace", "parabolic", "wave"}

\* The conditions set_u receives: the wave solver drops d_init.
SetUConds == IF solver = "wave" THEN Tail(conds) ELSE conds

\* A solve that has returned its array.
Returned == pc = "returned" /\ solver \in Solvers

\* C1 (as amended): once set_u has run, and up to the return of solve, the
\* rows x=0 and x=xf of a time-dependent solver equal bound_x0 and bound_xf
\* at every index and its column y=0 equals the initial condition at the
\* indices 1..xn-1; the columns y=0 and y=yf of the Laplace solver equal
\* bound_y0 and bound_yf at every index and its rows x=0 and x=xf equal
\* bound_x0 and bound_xf at the indices 1..yn-1.  No bootstrap, step or
\* linear solve changes any of these cells.
C1_EdgesKeepConditions ==
    (solver \in Solvers /\ u # <<>>) =>
        LET xn == Rows(u) - 1
            yn == Cols(u) - 1
            cs == SetUConds
        IN  IF solver = "laplace"
            THEN /\ \A i \in 0..xn : u[i][0] = At(cs[3], i) /\ u[i][yn] = At(cs[4], i)
                 /\ \A c \in 1..(yn - 1) : u[0][c] = At(cs[1], c) /\ u[xn][c] = At(cs[2], c)
            ELSE /\ \A c \in 0..yn : u[0][c] = At(cs[2], c) /\ u[xn][c] = At(cs[3], c)
                 /\ \A i \in 1..(xn - 1) : u[i][0] = At(cs[1], i)

\* C1 witness: a parabolic solve returned after at least two steps, with an
\* initial condition and a boundary that disagree at the corner (0, 0).
C1_Witness ==
    /\ Returned /\ solver = "parabolic" /\ Cols(u) > 2
    /\ At(conds[1], 0) # At(conds[2], 0)

\* C1 as stated: in the returned array every edge equals its condition at
\* every index, the four corners included.
C1_Original ==
    Returned =>
        LET xn == Rows(u) - 1
            yn == Cols(u) - 1
            cs == SetUConds
        IN  IF solver = "laplace"
            THEN /\ \A i \in 0..xn : u[i][0] = At(cs[3], i) /\ u[i][yn] = At(cs[4], i)
                 /\ \A c \in 0..yn : u[0][c] = At(cs[1], c) /\ u[xn][c] = At(cs[2], c)
            ELSE /\ \A c \in 0..yn : u[0][c] = At(cs[2], c) /\ u[xn][c] = At(cs[3], c)
                 /\ \A i \in 0..xn : u[i][0] = At(cs[1], i)

\* C2: for a domain (xn, xf, yn, yf) the array of each solver has xn+1
\* rows and yn+1 columns from its allocation to its return; the array
\* pdepy.steady.set_u builds from a pair of axes has one row per point of x
\* and one column per point of y.
C2_Shape ==
    /\ (solver \in Solvers /\ u # <<>>) =>
          /\ DOMAIN u = 0..domain[1]
          /\ \A i \in DOMAIN u : DOMAIN u[i] = 0..domain[3]
    /\ (solver = "steady.set_u" /\ u # <<>>) =>
          /\ DOMAIN u = 0..(Len(domain[1]) - 1)
          /\ \A i \in DOMAIN u : DOMAIN u[i] = 0..(Len(domain[2]) - 1)

\* C2 witness: the Laplace solve of the tests (xn = 3, yn = 4) returned.
C2_Witness ==
    /\ Returned /\ solver = "laplace" /\ domain[1] = 3 /\ domain[3] = 4
    /\ Rows(u) = 4 /\ Cols(u) = 5

\* pdepy.steady.set_u(x, y, 1, 2, 3, 4) on the axes of (2, 2.0, 2, 2.0)
\* returned [[3, 1, 4], [3, _, 4], [3, 2, 4]].
C2_WitnessAxes ==
    /\ solver = "steady.set_u" /\ pc = "returned"
    /\ domain = <<<<R(0), R(1), R(2)>>, <<R(0), R(1), R(2)>>>>
    /\ conds = LaplaceScalarConds
    /\ u = [i \in 0..2 |-> [c \in 0..2 |->
                IF c = 0 THEN R(3) ELSE IF c = 2 THEN R(4)
                ELSE IF i = 0 THEN R(1) ELSE IF i = 2 THEN R(2) ELSE Unset]]

\* C3: a solve called with a method code outside the solver's set of valid
\* codes never leaves its first statement except by the error; no array
\* is allocated, no condition written, no constant, axis or coefficient
\* computed and no step or linear solve run.
C3_InvalidMethodDoesNothing ==
    (solver \in Solvers /\ method \notin METHODS(solver)) =>
        /\ pc \in {"check_method", "raised"}
        /\ pc = "raised" => err = "SystemExit"
        /\ u = <<>> /\ writes = <<>> /\ consts = <<>> /\ axis = <<>> /\ prm = <<>>
        /\ theta = -1 /\ j = -1

\* C3 witness: wave solve ended in the error for the code 'ic'.
C3_Witness ==
    /\ solver = "wave" /\ method = "ic" /\ pc = "raised" /\ err = "SystemExit"

\* C4: Laplace solve given the four edges sampled from a harmonic
\* quadratic polynomial f returns f at every grid node, on every grid
\* with xn >= 2 and yn >= 2.
C4_HarmonicExact ==
    \A name \in {"test", "x2_y2"} :
        (/\ Returned /\ solver = "laplace" /\ Len(domain) = 4
         /\ conds = SampledEdges(name, AxisOf(domain)[1], AxisOf(domain)[2]))
        => \A i \in DOMAIN u : \A c \in DOMAIN u[i] :
               u[i][c] = Harmonic(name, AxisOf(domain)[1][i + 1], AxisOf(domain)[2][c + 1])

\* C5: wave solve with equal steps h = k and conditions sampled from
\* u(x, y) = x(1-x) + y(1-y) returns, for method 'e' and for method 'i'
\* alike, the array that equals u at every grid node.
C5_WaveExactForEqualSteps ==
    (/\ Returned /\ solver = "wave" /\ Len(domain) = 4 /\ EqualSteps(domain)
     /\ conds = WaveTestConds(AxisOf(domain)[1], AxisOf(domain)[2]))
    => \A i \in DOMAIN u : \A c \in DOMAIN u[i] :
           u[i][c] = WaveExact(AxisOf(domain)[1][i + 1], AxisOf(domain)[2][c + 1])

\* C5 witness: the fixture of the tests (xn = 4, xf = 1, yn = 4, yf = 1)
\* solved with method 'e'; the node (1/2, 1) holds 1/4.
C5_Witness ==
    /\ Returned /\ solver = "wave" /\ method = "e"
    /\ domain = <<4, R(1), 4, R(1)>>
    /\ conds = WaveTestConds(AxisOf(domain)[1], AxisOf(domain)[2])
    /\ u[2][4] = <<1, 4>>

\* C6: laplace.solve called with the method code 'ic' does not end in the
\* invalid-method error.
C6_LaplaceAcceptsIc ==
    (solver = "laplace" /\ method = "ic") => ~(pc = "raised" /\ err = "SystemExit")

\* A call of the wrapper that passes the method as a keyword argument.
KeywordCall == api = "pdepy" /\ solver = "" /\ HasKey(call_kwargs, "method")

\* C7: a function wrapped by validate_method and called with the keyword
\* argument method=m is invoked exactly once, with the arguments of the
\* call, and its result returned, if m is a valid method; otherwise an
\* exception is raised and the function is never invoked.
C7_WrapperValidates ==
    KeywordCall =>
        /\ pc = "wrapper" => func_calls = <<>> /\ func_result = <<>>
        /\ (pc # "wrapper" /\ KwValue(call_kwargs, "method") \in valid_methods) =>
              /\ pc = "returned"
              /\ func_calls = << <<call_args, call_kwargs>> >>
              /\ func_result = FuncResult(call_args, call_kwargs)
        /\ (pc # "wrapper" /\ KwValue(call_kwargs, "method") \notin valid_methods) =>
              /\ pc = "raised" /\ err = "Exception"
              /\ func_calls = <<>> /\ func_result = <<>>

\* C7 witness: the call dummy(method="m1") of the tests, with m1 the only
\* valid method, has returned.
C7_Witness ==
    /\ KeywordCall /\ pc = "returned" /\ valid_methods = {"m1"}
    /\ call_args = <<>> /\ call_kwargs = {<<"method", "m1">>}
    /\ Len(func_calls) = 1

\* C8: a solve given a pair of axis arrays as its domain, with valid
\* conditions, coefficients and method, does not end in an error.
C8_AxesAccepted ==
    (solver \in Solvers /\ Len(domain) = 2) => pc # "raised"

\* What Base._set_parameters is to return for one coefficient.
Materialized(p, x, y) ==
    CASE p.kind = "scalar" -> ConstArray(p.s, Len(x) - 2, Len(y) - 1)
      [] p.kind = "func" ->
            PArray([i \in 1..(Len(x) - 2) |-> [c \in 1..(Len(y) - 1) |->
                        ApplyFn(p.fn, x[i + 1], y[c])]])
      [] p.kind = "array" -> p

\* The array the parabolic steps of method m make of u0 from level lv on,
\* given the coefficient arrays ps; <<>> if a linear solve fails.
RECURSIVE StepsFrom(_, _, _, _, _)
StepsFrom(u0, m, cst, ps, lv) ==
    IF lv > Cols(u0) - 2 THEN u0
    ELSE LET nu == IF FirstCharIsE(m)
                   THEN parabolic_explicit_step(u0, set_theta(m), cst[1], cst[2], cst[3],
                            ps[1].arr, ps[2].arr, ps[3].arr, ps[4].arr, lv)
                   ELSE parabolic_implicit_step(u0, set_theta(m), cst[1], cst[2], cst[3],
                            ps[1].arr, ps[2].arr, ps[3].arr, ps[4].arr, lv)
         IN  IF nu = <<>> THEN <<>> ELSE StepsFrom(Tabulated(nu), m, cst, ps, lv + 1)

\* C9: the materializer of the class API returns, for each coefficient, an
\* array of shape (len(x)-2, len(y)-1): constant c for a scalar c, entry
\* [i, j] equal to f(x[i+1], y[j]) for a function f, the array itself for
\* an array; and the array solve returns is the one the steps compute from
\* these arrays, so a scalar and its constant array give the same result.
C9_ParametersMaterialized ==
    (api = "core" /\ solver = "parabolic" /\ prm # <<>>) =>
        LET xs == AxisOf(domain)[1]
            ys == AxisOf(domain)[2]
            ms == [n \in 1..4 |-> Materialized(params[n], xs, ys)]
        IN  /\ prm = ms
            /\ \A n \in 1..4 :
                  /\ Len(prm[n].arr) = domain[1] - 1
                  /\ \A i \in 1..(domain[1] - 1) : Len(prm[n].arr[i]) = domain[3]
            /\ pc = "returned" =>
                  u = StepsFrom(time_set_u(domain[1], domain[3], conds[1], conds[2], conds[3]),
                                method,
                                parabolic_cal_constants(domain[1], domain[2], domain[3], domain[4]),
                                ms, 0)

\* C9 witness: a solve of the class API with a scalar p and a function q
\* has returned after two steps or more.
C9_Witness ==
    /\ Returned /\ api = "core" /\ solver = "parabolic"
    /\ params[1].kind = "scalar" /\ params[2].kind = "func"
    /\ Cols(u) > 2 /\ prm[2].arr[1][2] = ApplyFn(params[2].fn, axis[1][2], axis[2][2])

\* A condition given as an array of another length than its target.
OtherLength ==
    \E n \in 1..Len(conds) :
        /\ conds[n].kind = "array"
        /\ Len(conds[n].a) # TargetLens(solver, domain[1], domain[3])[n]

\* A solve with a valid method and a 4-tuple domain.
ValidCall == solver \in Solvers /\ Len(domain) = 4 /\ method \in METHODS(solver)

\* C10: if a condition is a 1-D array of another length than the row or
\* column it is written into, a length of 1 included, solve ends in an
\* error and returns no array.  set_u checks no length: numpy's assignment
\* raises for the other lengths and broadcasts an array of length 1.
C10_MismatchedLengthFails ==
    (ValidCall /\ OtherLength) => pc \notin {"return", "returned"}

\* C11: building the axes with a partition count below 1 in either
\* dimension does not return an axis pair.
C11_DegenerateAxesFail ==
    (solver = "axis" /\ (domain[1] < 1 \/ domain[3] < 1)) => pc # "returned"


\* The arguments of the call being executed, as the caller holds them.
CurrentArgs == <<api, solver, domain, conds, params, method>>
Completed(i) == i < Len(history) \/ pc = "returned"

\* C12: in a session of calls, every call finds in the caller's argument
\* objects what the first call found there (no call writes into the list
\* or the arrays it was passed), and two completed calls with identical
\* entry point, domain, conditions, parameters and method returned
\* identical arrays, whatever other solver was called in between and
\* whatever the memory of the new array held before.
C12_RepeatedCallsAgree ==
    (solver \in Solvers /\ history # <<>>) =>
        /\ CurrentArgs = history[Len(history)].args
        /\ \A i \in 1..Len(history) :
              /\ Completed(i) => history[i].after = history[i].args
              /\ history[i].obj = 1 => history[i].args = history[1].args
        /\ \A i \in 1..Len(history) : \A k \in 1..Len(history) :
              (Completed(i) /\ Completed(k) /\ history[i].args = history[k].args)
                  => history[i].result = history[k].result
C12_Witness ==
    /\ pc = "returned" /\ solver = "parabolic" /\ api = "core"
    /\ Len(history) = 3
    /\ history[2].args[2] # "parabolic"
    /\ history[3].obj = 1 /\ history[3].args = history[1].args
    /\ history[2].result # <<>> /\ history[3].result # <<>>
    /\ history[3].result = history[1].result
    /\ \E n \in 1..4 : params[n].kind # "array" /\ prm[n].kind = "array"
\* A Laplace solve repeated after a wave solve on a grid of the same size,
\* whose array may lie in the memory of either earlier array.
C12_WitnessMemory ==
    /\ pc = "returned" /\ solver = "laplace" /\ Len(history) = 3
    /\ history[2].args[2] = "wave"
    /\ DOMAIN history[2].result = DOMAIN history[3].result
    /\ history[2].result # history[3].result
    /\ history[3].result = history[1].result

\* The coefficient the specification gives to the wave schemes: (k/h)^2.
StatedAlpha == RSq(RDiv(RDiv(domain[4], R(domain[3])), RDiv(domain[2], R(domain[1]))))
SecondDifference(x, lv) == RAdd(RSub(u[x + 1][lv], RMul(R(2), u[x][lv])), u[x - 1][lv])

\* C13: the array returned by the explicit wave method satisfies, at every
\* interior node x and every level j from 1 to yn-1,
\* u[x,j+1] = 2u[x,j] - u[x,j-1] + a(u[x+1,j] - 2u[x,j] + u[x-1,j])
\* with a = (k/h)^2, on every domain, unequal steps included.
C13_WaveExplicitStep ==
    (Returned /\ solver = "wave" /\ method = "e") =>
        \A x \in 1..(Rows(u) - 2) : \A lv \in 1..(Cols(u) - 2) :
            u[x][lv + 1] = RAdd(RSub(RMul(R(2), u[x][lv]), u[x][lv - 1]),
                                RMul(StatedAlpha, SecondDifference(x, lv)))

\* The coefficient solve hands to the wave loops: (h/k)^2.
PassedAlpha == RSq(RDiv(RDiv(domain[2], R(domain[1])), RDiv(domain[4], R(domain[3]))))
\* Row x of the tridiagonal system of level lv+1 with coefficient a, the
\* boundary values of level lv+1 kept on the left-hand side.
ImplicitRowHolds(a, x, lv) ==
    RAdd(RSub(u[x - 1][lv + 1], RMul(RMul(R(2), RAdd(One, a)), u[x][lv + 1])),
         u[x + 1][lv + 1])
    = RSub(RAdd(RSub(RNeg(u[x - 1][lv - 1]), u[x + 1][lv - 1]),
                RMul(RMul(R(2), RAdd(One, a)), u[x][lv - 1])),
           RMul(RMul(R(4), a), u[x][lv]))
WaveImplicitReturned == Returned /\ solver = "wave" /\ method = "i"

\* C14 (as stated): the interior of every level j+1 returned by the
\* implicit wave method solves the tridiagonal system with main diagonal
\* -2(1+a), unit off-diagonals and right-hand side
\* -u[x-1,j-1] - u[x+1,j-1] + 2(1+a)u[x,j-1] - 4a u[x,j] less the boundary
\* values of level j+1, with a = (k/h)^2.
C14_Original ==
    WaveImplicitReturned =>
        \A x \in 1..(Rows(u) - 2) : \A lv \in 1..(Cols(u) - 2) :
            ImplicitRowHolds(StatedAlpha, x, lv)

\* C14 (amended): the same system, at every level, with a = (h/k)^2.
C14_WaveImplicitSystem ==
    WaveImplicitReturned =>
        \A x \in 1..(Rows(u) - 2) : \A lv \in 1..(Cols(u) - 2) :
            ImplicitRowHolds(PassedAlpha, x, lv)
C14_Witness ==
    /\ WaveImplicitReturned
    /\ PassedAlpha # StatedAlpha
    /\ Rows(u) >= 4 /\ Cols(u) >= 4
    /\ u[0][Cols(u) - 1] # Zero /\ u[Rows(u) - 1][Cols(u) - 1] # Zero
    /\ \E x \in 1..(Rows(u) - 2) : u[x][Cols(u) - 1] # Zero

\* The interior node (i, j) at the 1-based index m of the column-major
\* flattening, and the 5-point stencil entry linking two such nodes.
NodeOf(m, xn) == <<((m - 1) % (xn - 1)) + 1, ((m - 1) \div (xn - 1)) + 1>>
StencilEntry(p, q, a, b) ==
    IF p = q THEN RNeg(RMul(R(2), RAdd(a, b)))
    ELSE IF p[2] = q[2] /\ Abs(p[1] - q[1]) = 1 THEN b
    ELSE IF p[1] = q[1] /\ Abs(p[2] - q[2]) = 1 THEN a
    ELSE Zero
LaplaceAssembling == solver = "laplace" /\ pc = "implicit"

\* C15: for every xn >= 2 and yn >= 2 the matrix the Laplace solver
\* assembles is the 5-point stencil over the column-major flattened interior
\* nodes, with a = (xf/xn)^2, b = (yf/yn)^2 and zeros everywhere else, the
\* wrap points included.
C15_LaplaceMatrixIsStencil ==
    LaplaceAssembling =>
        LET xn  == domain[1]
            yn  == domain[3]
            a   == RSq(RDiv(domain[2], R(xn)))
            b   == RSq(RDiv(domain[4], R(yn)))
            mat == laplace_set_mat(consts[1], consts[2], xn, yn)
        IN  \A r \in 1..((xn - 1) * (yn - 1)) : \A c \in 1..((xn - 1) * (yn - 1)) :
                mat[r][c] = StencilEntry(NodeOf(r, xn), NodeOf(c, xn), a, b)
\* The same for the grids with at least two interior nodes in a column.
C15_StencilFromThreePartitions ==
    (LaplaceAssembling /\ domain[1] >= 3) => C15_LaplaceMatrixIsStencil
C15_SingleColumnAgrees ==
    (LaplaceAssembling /\ domain[1] = 2 /\ domain[3] = 2) => C15_LaplaceMatrixIsStencil

\* The right-hand side entry of interior node (i, j) as the specification
\* states it, and the product of row m of the assembled matrix with the
\* interior of u flattened column-major.
StatedRhs(i, k, a, b) ==
    LET xn == Rows(u) - 1
        yn == Cols(u) - 1
        t1 == IF i = 1 THEN RNeg(RMul(b, u[0][k])) ELSE Zero
        t2 == IF i = xn - 1 THEN RSub(t1, RMul(b, u[xn][k])) ELSE t1
        t3 == IF k = 1 THEN RSub(t2, RMul(a, u[i][0])) ELSE t2
    IN  IF k = yn - 1 THEN RSub(t3, RMul(a, u[i][yn])) ELSE t3
RECURSIVE RowTimesInterior(_, _, _)
RowTimesInterior(row, xn, c) ==
    IF c = 0 THEN Zero
    ELSE RAdd(RowTimesInterior(row, xn, c - 1),
              RMul(row[c], u[NodeOf(c, xn)[1]][NodeOf(c, xn)[2]]))
LaplaceSolved == solver = "laplace" /\ pc \in {"return", "returned"} /\ err = ""

\* C16: the Laplace right-hand side at index (i-1) + (xn-1)(j-1) is the sum
\* of -b*u[0,j] if i = 1, -b*u[xn,j] if i = xn-1, -a*u[i,0] if j = 1 and
\* -a*u[i,yn] if j = yn-1, and the unknown solved at that index is stored in
\* u[i,j]: the stored interior, flattened column-major, solves the system.
C16_LaplaceColumnMajor ==
    LET xn  == domain[1]
        yn  == domain[3]
        n   == (xn - 1) * (yn - 1)
        a   == RSq(RDiv(domain[2], R(xn)))
        b   == RSq(RDiv(domain[4], R(yn)))
    IN  /\ LaplaceAssembling =>
              \A m \in 1..n :
                  laplace_set_vec(consts[1], consts[2], u)[m]
                      = StatedRhs(NodeOf(m, xn)[1], NodeOf(m, xn)[2], a, b)
        /\ LaplaceSolved =>
              \A m \in 1..n :
                  RowTimesInterior(laplace_set_mat(consts[1], consts[2], xn, yn)[m], xn, n)
                      = StatedRhs(NodeOf(m, xn)[1], NodeOf(m, xn)[2], a, b)
C16_Witness ==
    /\ LaplaceSolved /\ pc = "returned"
    /\ domain[1] = 3 /\ domain[3] = 4
    /\ u[1][2] # u[2][1]
    /\ \E i \in 1..2 : \E k \in 1..3 : u[i][k] # Zero

\* The constants and weights of the parabolic schemes as the specification
\* states them: a = k/h^2, b = k/(2h), and, for interior node i and level
\* lv with t = 0 (central) or 1 (upwind), the weights of u[i-1], u[i+1] and
\* the part 2(a*p + t*b*|q|) of the weight of u[i].
StatedH == RDiv(domain[2], R(domain[1]))
StatedK == RDiv(domain[4], R(domain[3]))
StatedA == RDiv(StatedK, RSq(StatedH))
StatedB == RDiv(StatedK, RMul(R(2), StatedH))
StatedT == IF method \in {"ec", "ic"} THEN 0 ELSE 1
ParamAt(n, i, lv) == LoopParams[n].arr[i][lv + 1]
WeightLeft(i, lv) ==
    RAdd(RMul(StatedA, ParamAt(1, i, lv)),
         RMul(StatedB, RSub(RMul(R(StatedT), RAbs(ParamAt(2, i, lv))), ParamAt(2, i, lv))))
WeightRight(i, lv) ==
    RAdd(RMul(StatedA, ParamAt(1, i, lv)),
         RMul(StatedB, RAdd(RMul(R(StatedT), RAbs(ParamAt(2, i, lv))), ParamAt(2, i, lv))))
WeightOwn(i, lv) ==
    RMul(R(2), RAdd(RMul(StatedA, ParamAt(1, i, lv)),
                    RMul(R(StatedT), RMul(StatedB, RAbs(ParamAt(2, i, lv))))))
ParabolicReturned(ms) == Returned /\ solver = "parabolic" /\ method \in ms

\* C17: the array returned by an explicit parabolic method ('ec', 'eu')
\* satisfies, at every level j from 0 to yn-1 and interior node i,
\* u[i,j+1] = (a*p + b*(t*|q| - q))*u[i-1,j] + (a*p + b*(t*|q| + q))*u[i+1,j]
\*            + (1 + k*r - 2*(a*p + t*b*|q|))*u[i,j] + k*s,
\* with p, q, r, s at node i and level j.
C17_ParabolicExplicitStep ==
    ParabolicReturned({"ec", "eu"}) =>
        \A i \in 1..(Rows(u) - 2) : \A lv \in 0..(Cols(u) - 2) :
            u[i][lv + 1] =
                RAdd(RAdd(RAdd(RMul(WeightLeft(i, lv), u[i - 1][lv]),
                               RMul(WeightRight(i, lv), u[i + 1][lv])),
                          RMul(RSub(RAdd(One, RMul(StatedK, ParamAt(3, i, lv))),
                                    WeightOwn(i, lv)), u[i][lv])),
                     RMul(StatedK, ParamAt(4, i, lv)))
C17_Witness ==
    /\ ParabolicReturned({"eu"})
    /\ Rows(u) >= 4 /\ Cols(u) >= 3
    /\ \E i \in 1..(Rows(u) - 2) : \E lv \in 0..(Cols(u) - 2) :
          /\ ParamAt(2, i, lv) # Zero /\ ParamAt(4, i, lv) # Zero
          /\ ParamAt(1, i, lv) # ParamAt(1, 1, 0)
          /\ u[i - 1][lv] # u[i + 1][lv]

\* C18: the array returned by an implicit parabolic method ('ic', 'iu')
\* satisfies, at every level j from 0 to yn-1 and interior node i,
\* (a*p + b*(t*|q| - q))*u[i-1,j+1] + (-1 + k*r - 2*(a*p + t*b*|q|))*u[i,j+1]
\*   + (a*p + b*(t*|q| + q))*u[i+1,j+1] = -u[i,j] - k*s,
\* with p, q, r, s at node i and level j only.
C18_ParabolicImplicitSystem ==
    ParabolicReturned({"ic", "iu"}) =>
        \A i \in 1..(Rows(u) - 2) : \A lv \in 0..(Cols(u) - 2) :
            RAdd(RAdd(RMul(WeightLeft(i, lv), u[i - 1][lv + 1]),
                      RMul(RSub(RAdd(R(-1), RMul(StatedK, ParamAt(3, i, lv))),
                                WeightOwn(i, lv)), u[i][lv + 1])),
                 RMul(WeightRight(i, lv), u[i + 1][lv + 1]))
            = RSub(RNeg(u[i][lv]), RMul(StatedK, ParamAt(4, i, lv)))
C18_Witness ==
    /\ ParabolicReturned({"iu"})
    /\ Rows(u) >= 4 /\ Cols(u) >= 2
    /\ u[0][1] # Zero /\ u[Rows(u) - 1][1] # Zero
    /\ \E i \in 2..(Rows(u) - 2) : \E lv \in 0..(Cols(u) - 2) :
          /\ ParamAt(2, i, lv) # Zero /\ ParamAt(4, i, lv) # Zero
          /\ ParamAt(1, i, lv) # ParamAt(1, i - 1, lv)

\* A time solver holding its array; the cells of level c of that array; the
\* number of assignments every cell has received when solve returns: those
\* of set_u, and one more for the interior cells of the levels after 0.
Stepping == solver \in {"parabolic", "wave"} /\ writes # <<>>
LevelCells(c) == {<<i, c>> : i \in 0..(Rows(u) - 1)}
InteriorCell(i, c) == i >= 1 /\ i <= Rows(u) - 2 /\ c >= 1
FinalWrites(i, c) ==
    SetUWrites(solver, Rows(u) - 1, Cols(u) - 1)[i][c] + (IF InteriorCell(i, c) THEN 1 ELSE 0)
ImplicitMethod == method \in {"i", "ic", "iu"}
AllowedReads(lv) ==
    LevelCells(lv - 1)
        \cup (IF solver = "wave" THEN LevelCells(lv - 2) ELSE {})
        \cup (IF ImplicitMethod THEN {<<0, lv>>, <<Rows(u) - 1, lv>>} ELSE {})

\* C19: in the parabolic and wave solvers the interiors of the levels are
\* written in strictly increasing order, each exactly once (the n-th
\* computation writes level n and nothing else); the computation of a level
\* reads only the level before it (and the one before that for wave) and,
\* for implicit methods, the two boundary cells of the level itself; every
\* cell read has received all the assignments it ever receives.
C19_LevelsInOrder ==
    Stepping =>
        /\ \A n \in 1..Len(reads) :
              /\ reads[n].level = n
              /\ reads[n].cells \subseteq AllowedReads(n)
              /\ \A cell \in reads[n].cells :
                    writes[cell[1]][cell[2]] = FinalWrites(cell[1], cell[2])
        /\ \A i \in 0..(Rows(u) - 1) : \A c \in 0..(Cols(u) - 1) :
              writes[i][c] = IF InteriorCell(i, c) /\ c > Len(reads)
                             THEN 0 ELSE FinalWrites(i, c)
        /\ pc \in {"return", "returned"} => Len(reads) = Cols(u) - 1
C19_Witness ==
    /\ Stepping /\ pc = "returned" /\ solver = "wave" /\ method = "i"
    /\ Len(reads) = 4 /\ Rows(u) >= 4
    /\ <<0, 4>> \in reads[4].cells /\ <<1, 2>> \in reads[4].cells
C19_WitnessParabolic ==
    /\ Stepping /\ pc = "returned" /\ solver = "parabolic" /\ method = "eu"
    /\ Len(reads) = 3 /\ <<0, 2>> \in reads[3].cells

\* d_init at space node x (0-based): a scalar, or a vector over x.
DInitAt(x) ==
    IF conds[1].kind = "scalar" \/ Len(conds[1].a) = 1 THEN conds[1].a[1]
    ELSE conds[1].a[x + 1]
FirstRowSet == solver = "wave" /\ pc \in {"loop", "return", "returned"}

\* C20: for both wave methods, when stepping starts and ever after, level 1
\* holds at every interior node x
\* u[x,0] + k*d_init(x) + (k^2/(2h^2))(u[x-1,0] - 2u[x,0] + u[x+1,0]),
\* written once by the first-row statement before any pass of the loop; the
\* passes of the loop write the levels from 2 on.
C20_FirstRowBootstrap ==
    FirstRowSet =>
        /\ Len(reads) >= 1 /\ j >= 1
        /\ \A n \in 2..Len(reads) : reads[n].level >= 2
        /\ \A x \in 1..(Rows(u) - 2) :
              /\ writes[x][1] = 1
              /\ u[x][1] =
                    RAdd(RAdd(u[x][0], RMul(StatedK, DInitAt(x))),
                         RMul(RDiv(RSq(StatedK), RMul(R(2), RSq(StatedH))),
                              RAdd(RSub(u[x - 1][0], RMul(R(2), u[x][0])), u[x + 1][0])))
C20_Witness ==
    /\ FirstRowSet /\ pc = "returned" /\ method = "e"
    /\ conds[1].kind = "array" /\ Len(conds[1].a) > 1
    /\ DInitAt(1) # DInitAt(2) /\ DInitAt(1) # Zero
    /\ StatedH # StatedK
    /\ Len(reads) >= 3
    /\ RAdd(RSub(u[0][0], RMul(R(2), u[1][0])), u[2][0]) # Zero

\* A solve whose arguments the claim covers: a valid method and a grid with
\* xn >= 2 and yn >= 1 (yn >= 2 for Laplace).
CoveredCall ==
    /\ solver \in Solvers /\ method \in METHODS(solver)
    /\ Len(domain) = 4 /\ domain[1] >= 2
    /\ domain[3] >= (IF solver = "laplace" THEN 2 ELSE 1)

\* C21: the array is allocated with no cell holding a value; every cell of
\* the array a solve returns holds a value assigned by a condition write,
\* the wave bootstrap, a time step or the Laplace solve; and no statement
\* that computes a level read a cell that had not been assigned.
C21_EveryCellAssigned ==
    CoveredCall =>
        /\ \A i \in 0..domain[1] : \A c \in 0..domain[3] :
              ~IsSet(np_empty(domain[1] + 1, domain[3] + 1)[i][c])
        /\ \A n \in 1..Len(reads) : reads[n].unassigned = {}
        /\ Returned =>
              \A i \in DOMAIN u : \A c \in DOMAIN u[i] :
                  IsSet(u[i][c]) /\ writes[i][c] >= 1
C21_Witness ==
    /\ CoveredCall /\ Returned /\ solver = "laplace"
    /\ domain[1] = 3 /\ domain[3] = 4
    /\ Len(reads) = 1 /\ reads[1].cells # {}
    /\ IsSet(u[0][0]) /\ IsSet(u[3][4]) /\ IsSet(u[1][1])
C21_WitnessWave ==
    /\ CoveredCall /\ Returned /\ solver = "wave" /\ method = "i"
    /\ domain[3] = 1 /\ Len(reads) = 1 /\ IsSet(u[1][1])
C21_WitnessParabolic ==
    /\ CoveredCall /\ Returned /\ solver = "parabolic" /\ method = "iu"
    /\ Len(reads) = 2 /\ IsSet(u[1][2])

\* The parabolic loop holds coefficient arrays; the sum of the entries of
\* row m of a matrix of n columns.
ParabolicStepping ==
    /\ solver = "parabolic" /\ pc \in {"loop", "return", "returned"} /\ u # <<>>
    /\ \A n \in 1..4 : LoopParams[n].kind = "array"
RECURSIVE RowSum(_, _)
RowSum(row, n) == IF n = 0 THEN Zero ELSE RAdd(RowSum(row, n - 1), row[n])
ConstantData(c) ==
    /\ \A i \in 0..(Rows(u) - 1) : u[i][0] = c
    /\ \A lv \in 0..(Cols(u) - 1) : u[0][lv] = c /\ u[Rows(u) - 1][lv] = c
    /\ \A i \in 1..(Rows(u) - 2) : \A lv \in 0..(Cols(u) - 2) :
          ParamAt(3, i, lv) = Zero /\ ParamAt(4, i, lv) = Zero

\* C22: at every pass of the parabolic loop, for every node and both values
\* of theta, the three weights of the explicit step sum to 1 + k*r and the
\* three coefficients of an interior row of the matrix of the implicit step
\* sum to -1 + k*r; and with r = 0,
\* s = 0 and the initial condition and both boundaries equal to one constant
\* c, the array returned by 'ec', 'eu', 'ic' or 'iu' is c everywhere.
C22_WeightsSumAndConstants ==
    ParabolicStepping =>
        /\ (pc = "loop" /\ j <= LastLevel) =>
            \A th \in {0, 1} : \A i \in 1..(Rows(u) - 2) :
              LET p  == ParamAt(1, i, j)
                  q  == ParamAt(2, i, j)
                  kr == RMul(consts[3], ParamAt(3, i, j))
                  mat == parabolic_set_mat(th, consts[1], consts[2], consts[3],
                             ParamCol(LoopParams[1].arr, j), ParamCol(LoopParams[2].arr, j),
                             ParamCol(LoopParams[3].arr, j))
              IN  /\ RAdd(RAdd(coef_lower(th, consts[1], consts[2], p, q),
                               coef_upper(th, consts[1], consts[2], p, q)),
                          RSub(RAdd(One, kr), coef_centre(th, consts[1], consts[2], p, q)))
                        = RAdd(One, kr)
                  /\ (i >= 2 /\ i <= Rows(u) - 3) =>
                        RowSum(mat[i], Rows(u) - 2) = RAdd(R(-1), kr)
        /\ (pc = "returned" /\ ConstantData(u[0][0])) =>
              \A i \in 0..(Rows(u) - 1) : \A lv \in 0..(Cols(u) - 1) : u[i][lv] = u[0][0]
C22_Witness ==
    /\ ParabolicStepping /\ pc = "returned" /\ method = "iu"
    /\ ConstantData(R(3))
    /\ Rows(u) >= 5 /\ Cols(u) >= 3
    /\ ParamAt(1, 1, 0) # ParamAt(1, 2, 0)
    /\ \E i \in 1..(Rows(u) - 2) : \E lv \in 0..(Cols(u) - 2) : ParamAt(2, i, lv)[1] < 0
    /\ \E i \in 1..(Rows(u) - 2) : \E lv \in 0..(Cols(u) - 2) : ParamAt(2, i, lv)[1] > 0
    /\ u[2][2] = R(3)
C22_WitnessExplicit ==
    /\ ParabolicStepping /\ pc = "returned" /\ method = "eu"
    /\ ConstantData(R(3)) /\ Cols(u) >= 3 /\ Rows(u) >= 4
    /\ ParamAt(2, 1, 0) # ParamAt(2, 2, 0) /\ u[1][2] = R(3)

\* A call of a wrapped function that passes no keyword argument "method":
\* the method is passed positionally or left to the function's default.
NoKeywordCall == api = "pdepy" /\ solver = "" /\ ~HasKey(call_kwargs, "method")

\* C23: a call of a function wrapped by validate_method that passes the
\* method positionally or omits it ends in a missing-key error, and the
\* wrapped function is never invoked, whether or not the method value would
\* have been valid.
C23_MethodOnlyFromKeywords ==
    NoKeywordCall =>
        /\ func_calls = <<>> /\ func_result = <<>>
        /\ pc \in {"wrapper", "raised"}
        /\ pc = "raised" => err = "KeyError"
C23_Witness ==
    /\ NoKeywordCall /\ pc = "raised" /\ err = "KeyError"
    /\ call_args = <<"m1">> /\ "m1" \in valid_methods
    /\ call_kwargs = {<<"flag", "on">>}
C23_WitnessOmitted ==
    /\ NoKeywordCall /\ pc = "raised" /\ err = "KeyError"
    /\ call_args = <<>> /\ call_kwargs = {} /\ valid_methods # {}
=============================================================================
